---- MODULE Spec2Model ----
(***************************************************************************)
(* Model of py_wallet_pass.providers.apple_pass.ApplePass: the stored pass *)
(* documents, the signing material, the temporary workspaces and the steps *)
(* of generate_pass_file (retrieve, stage, manifest, sign, package).       *)
(*                                                                         *)
(* Python dicts are functions with string domains (records); a file system *)
(* directory is a function from the names that exist in it to their bytes. *)
(* Bytes are not modelled bit by bit: the bytes a JSON encoder writes are  *)
(* the record of the encoded object and the encoder's settings, the bytes  *)
(* of a SHA-1 digest or of a PKCS#7 structure are the record of what was   *)
(* hashed or signed (ideal hash, ideal signature).                         *)
(***************************************************************************)
EXTENDS Integers, Sequences, FiniteSets, TLC

VARIABLES
    store,              \* <storage_path>/apple/passes: pass_id -> bytes of <pass_id>.json
    now,                \* datetime.now(), advanced by every storing operation
    certificate,        \* self._certificate
    private_key,        \* self._private_key
    wwdr_certificate,   \* self._wwdr_certificate
    tmpfs,              \* temporary directories that exist: name -> (file name -> bytes)
    pc,                 \* per call of generate_pass_file: its position
    arg_pass_id,        \* per call: the pass_id argument
    pass_json,          \* per call: local pass_json
    temp_dir,           \* per call: local temp_dir
    manifest,           \* per call: local manifest
    signature,          \* per call: local signature
    buffer,             \* per call: the zip entries written to the BytesIO buffer
    result,             \* per call: the value returned to the caller
    raised,             \* per call: the exception raised inside the try block
    error,              \* per call: the exception the caller receives
    call,               \* the last call made on the provider: its name and arguments
    outcome,            \* what that call returned or raised
    mem_passes,         \* MemoryStorage.passes: provider -> (pass_id -> pass data)
    fs_storage,         \* FileSystemStorage: <storage_path>/<provider>/passes -> (file name -> bytes)
    latest              \* per backend: (provider, pass_id) -> the data last stored and not deleted since

vars == <<store, now, certificate, private_key, wwdr_certificate, tmpfs, pc,
          arg_pass_id, pass_json, temp_dir, manifest, signature, buffer,
          result, raised, error, call, outcome, mem_passes, fs_storage, latest>>

material == <<certificate, private_key, wwdr_certificate>>
locals == <<arg_pass_id, pass_json, temp_dir, manifest, signature, buffer,
            result, raised, error>>
api == <<call, outcome>>
backends == <<mem_passes, fs_storage, latest>>

(***************************************************************************)
(* Bounds of the model.                                                    *)
(***************************************************************************)
MaxTime == 3            \* storing operations (create, update, void) per behaviour

Calls == {"call1", "call2"}         \* concurrent callers of generate_pass_file
MainCall == "call1"                 \* the caller of the sequential specification
Serials == {"s1", "s2"}             \* serial numbers callers use
TempNames == {"tmpA", "tmpB", "tmpC"}   \* names mkdtemp can draw

None == [none |-> TRUE]             \* Python's None
SeqRange(q) == {q[i] : i \in DOMAIN q}  \* the elements of a list
EmptyDict == [k \in {} |-> TRUE]    \* Python's {}

\* what a call hands its caller: the value it returns or the exception it raises
Returned(value) == [ok |-> TRUE, value |-> value]
Raised(kind, message) == [ok |-> FALSE, error |-> [kind |-> kind, message |-> message]]

(***************************************************************************)
(* Configuration (tests/conftest.py).                                      *)
(***************************************************************************)
apple_pass_type_identifier == "pass.com.example.test"
apple_team_identifier == "ABCDE12345"
apple_organization_name == "Test Organization"
web_service_url == "https://example.com/wallet"

LocaleEncodings == {"utf-8", "cp1252", "latin-1"}   \* what open(path, 'w') may encode with

(***************************************************************************)
(* json.dump / json.dumps / json.load, text-mode files, hashing.           *)
(***************************************************************************)
\* json.dumps(obj, indent=indent): the text depends on the object and on the
\* encoder's settings (indent is "compact" for the default, indent=None);
\* ensure_ascii is the encoder's default (True).
JsonDumps(obj, indent) == [json |-> obj, indent |-> indent, ensure_ascii |-> TRUE]

\* str.encode(codec), also what a text-mode file does on write: pure ASCII
\* text has the same bytes under every ASCII-compatible codec.
EncodeText(text, codec) ==
    [text |-> text, codec |-> IF text.ensure_ascii THEN "ascii" ELSE codec]

\* json.load(f) on the bytes of a file: the object that was encoded.
JsonLoad(bytes) == bytes.text.json

\* hashlib.sha1(data).hexdigest(), collision-free.
Sha1Hex(data) == [sha1_hex |-> data]

\* datetime.isoformat() and datetime.fromisoformat().
IsoFormat(t) == [iso |-> t]
FromIsoFormat(s) == s.iso

(***************************************************************************)
(* Templates and pass data supplied by callers.                            *)
(***************************************************************************)
Field(key, label, value) ==
    [key |-> key, label |-> label, value |-> value, change_message |-> "",
     text_alignment |-> "", date_style |-> "", time_style |-> "",
     is_relative |-> FALSE, currency_code |-> "", number_format |-> ""]

EventTemplate ==
    [id |-> "tpl-event", name |-> "Event", description |-> "",
     organization_id |-> "test-org", pass_type |-> "APPLE_EVENTTICKET",
     style |-> [background_color |-> "#FFFFFF", foreground_color |-> "",
                label_color |-> "", logo_text |-> "Test Pass"],
     barcode_format |-> "PKBarcodeFormatQR", authentication_token |-> "",
     web_service_url |-> "",
     structure |-> [header_fields |-> <<Field("event_name", "EVENT", "Gig")>>,
                    primary_fields |-> <<>>, secondary_fields |-> <<>>,
                    auxiliary_fields |-> <<>>, back_fields |-> <<>>]]

GenericTemplate ==
    [id |-> "test-template-apple", name |-> "Test Apple Template",
     description |-> "A test Apple template",
     organization_id |-> "test-org", pass_type |-> "APPLE_GENERIC",
     style |-> [background_color |-> "", foreground_color |-> "#000000",
                label_color |-> "#999999", logo_text |-> ""],
     barcode_format |-> "PKBarcodeFormatQR", authentication_token |-> "tok",
     web_service_url |-> "",
     structure |-> [header_fields |-> <<>>, primary_fields |-> <<>>,
                    secondary_fields |-> <<>>, auxiliary_fields |-> <<>>,
                    back_fields |-> <<>>]]

Templates == {EventTemplate, GenericTemplate}

PassDatas ==
    [serial_number : Serials, customer_id : {"cust-1"}, voided : BOOLEAN,
     expiration_date : {None}, relevant_date : {None},
     barcode_message : {""}, barcode_alt_text : {""},
     field_values : {EmptyDict, [event_name |-> "Sold Out Gig"]}]

(***************************************************************************)
(* _generate_pass_json and _add_fields_to_pass.                            *)
(***************************************************************************)
OptStr(key, value) == IF value # "" THEN key :> value ELSE EmptyDict
OptBool(key, value) == IF value THEN key :> value ELSE EmptyDict
OptDate(key, value) == IF value # None THEN key :> IsoFormat(value.at) ELSE EmptyDict

\* variant: the template's default is used whatever the instance supplies
FieldValueDefaultOnly(field, pass_data) == field.value

\* pass_data.field_values.get(field.key, field.value)
FieldValue(field, pass_data) ==
    IF field.key \in DOMAIN pass_data.field_values
    THEN pass_data.field_values[field.key]
    ELSE field.value

FieldDict(field, pass_data) ==
    [key |-> field.key, label |-> field.label, value |-> FieldValue(field, pass_data)]
    @@ OptStr("changeMessage", field.change_message)
    @@ OptStr("textAlignment", field.text_alignment)
    @@ OptStr("dateStyle", field.date_style)
    @@ OptStr("timeStyle", field.time_style)
    @@ OptBool("isRelative", field.is_relative)
    @@ OptStr("currencyCode", field.currency_code)
    @@ OptStr("numberFormat", field.number_format)

\* variant: a region's fields are appended in reverse order
AddFieldsToPassReversed(pass_dict, field_type, fields, pass_data) ==
    IF fields = <<>>
    THEN pass_dict
    ELSE (field_type :> [i \in 1..Len(fields) |->
                            FieldDict(fields[Len(fields) + 1 - i], pass_data)])
         @@ pass_dict

AddFieldsToPass(pass_dict, field_type, fields, pass_data) ==
    IF fields = <<>>
    THEN pass_dict
    ELSE (field_type :> [i \in 1..Len(fields) |-> FieldDict(fields[i], pass_data)])
         @@ pass_dict

\* variant: the APPLE_ prefix is removed and the case is kept
PassStyleKeyUpper(pass_type) ==
    CASE pass_type = "APPLE_GENERIC" -> "GENERIC"
      [] pass_type = "APPLE_EVENTTICKET" -> "EVENTTICKET"
      [] pass_type = "APPLE_COUPON" -> "COUPON"
      [] pass_type = "APPLE_STORECARD" -> "STORECARD"
      [] pass_type = "APPLE_BOARDINGPASS" -> "BOARDINGPASS"
      [] OTHER -> pass_type

\* template.pass_type.value with the APPLE_ prefix removed, lower-cased.
PassStyleKey(pass_type) ==
    CASE pass_type = "APPLE_GENERIC" -> "generic"
      [] pass_type = "APPLE_EVENTTICKET" -> "eventticket"
      [] pass_type = "APPLE_COUPON" -> "coupon"
      [] pass_type = "APPLE_STORECARD" -> "storecard"
      [] pass_type = "APPLE_BOARDINGPASS" -> "boardingpass"
      [] OTHER -> pass_type

Barcode(pass_data, template) ==
    [format |-> template.barcode_format, message |-> pass_data.barcode_message,
     messageEncoding |-> "iso-8859-1"]
    @@ OptStr("altText", pass_data.barcode_alt_text)

StyleFields(pass_data, template) ==
    LET s == template.structure
        d1 == AddFieldsToPass(EmptyDict, "headerFields", s.header_fields, pass_data)
        d2 == AddFieldsToPass(d1, "primaryFields", s.primary_fields, pass_data)
        d3 == AddFieldsToPass(d2, "secondaryFields", s.secondary_fields, pass_data)
        d4 == AddFieldsToPass(d3, "auxiliaryFields", s.auxiliary_fields, pass_data)
    IN  AddFieldsToPass(d4, "backFields", s.back_fields, pass_data)

GeneratePassJson(pass_data, template, t) ==
    LET url == IF template.web_service_url # "" THEN template.web_service_url
               ELSE web_service_url
    IN  (PassStyleKey(template.pass_type) :> StyleFields(pass_data, template))
        @@ OptStr("webServiceURL", url)
        @@ OptStr("authenticationToken", template.authentication_token)
        @@ (IF pass_data.barcode_message # ""
            THEN [barcodes |-> <<Barcode(pass_data, template)>>,
                  barcode |-> Barcode(pass_data, template)]
            ELSE EmptyDict)
        @@ OptBool("voided", pass_data.voided)
        @@ OptDate("relevantDate", pass_data.relevant_date)
        @@ OptDate("expirationDate", pass_data.expiration_date)
        @@ OptStr("labelColor", template.style.label_color)
        @@ OptStr("foregroundColor", template.style.foreground_color)
        @@ OptStr("backgroundColor", template.style.background_color)
        @@ [formatVersion |-> 1,
            passTypeIdentifier |-> apple_pass_type_identifier,
            serialNumber |-> pass_data.serial_number,
            teamIdentifier |-> apple_team_identifier,
            organizationName |-> apple_organization_name,
            templateId |-> template.id,
            customerId |-> pass_data.customer_id,
            organizationId |-> template.organization_id,
            createdAt |-> IsoFormat(t),
            updatedAt |-> IsoFormat(t),
            description |-> IF template.description # "" THEN template.description
                            ELSE template.name \o " Pass",
            logoText |-> template.style.logo_text]

(***************************************************************************)
(* The pass store: _store_pass_data and _retrieve_pass_data.               *)
(***************************************************************************)
PassIdOf(serial_number) == apple_pass_type_identifier \o "." \o serial_number
PassIds == {PassIdOf(s) : s \in Serials}

\* open(pass_path, 'w'); json.dump(pass_json, f)
StorePassData(st, pass_id, doc, codec) ==
    (pass_id :> EncodeText(JsonDumps(doc, "compact"), codec)) @@ st

PassExists(st, pass_id) == pass_id \in DOMAIN st

\* open(pass_path, 'r'); json.load(f)
RetrievePassData(st, pass_id) == JsonLoad(st[pass_id])

(***************************************************************************)
(* Temporary workspace, manifest, signature, archive.                      *)
(***************************************************************************)
WriteFile(dir, name, bytes) == (name :> bytes) @@ dir

\* TemporaryDirectory.__exit__: the directory and what it holds are removed.
RemoveTree(fs, d) == [n \in DOMAIN fs \ {d} |-> fs[n]]

\* _add_pass_images: a placeholder that stages no file.
AddPassImages(dir, template) == dir

\* variant: the manifest also skips every *.json file
CreateManifestSkipsJson(dir) ==
    [n \in DOMAIN dir \ {"pass.json", "manifest.json", "signature"} |-> Sha1Hex(dir[n])]

\* _create_manifest: pass_dir.glob('*') minus the manifest and the signature,
\* each with the SHA-1 hex digest of its bytes.
CreateManifest(dir) ==
    [n \in DOMAIN dir \ {"manifest.json", "signature"} |-> Sha1Hex(dir[n])]

\* variant: the manifest file is written pretty-printed (json.dump(..., indent=2))
ManifestFileBytesIndented(m, codec) == EncodeText(JsonDumps(m, "indent2"), codec)

\* json.dump(manifest, f) into the text-mode file manifest.json
ManifestFileBytes(m, codec) == EncodeText(JsonDumps(m, "compact"), codec)

\* json.dumps(manifest).encode()
ManifestSignedBytes(m) == EncodeText(JsonDumps(m, "compact"), "utf-8")

\* _sign_manifest: the DER bytes of a PKCS#7 signed-data structure over the
\* manifest bytes, by the signer certificate and key, with the WWDR
\* certificate added.
SignManifest(m, cert, key, wwdr) ==
    [pkcs7_der |-> [content |-> ManifestSignedBytes(m), signer |-> cert,
                    key |-> key, certificates |-> {wwdr}]]

\* temp_path.glob('*'): the directory's names in an order the OS chooses.
GlobOrders(dir) ==
    {o \in [1..Cardinality(DOMAIN dir) -> DOMAIN dir] :
        \A i, j \in DOMAIN o : i # j => o[i] # o[j]}

\* variant: zip_file.write(file_path) without arcname keeps the directory path
ZipEntriesFullPath(dir, order) ==
    [i \in DOMAIN order |-> [name |-> "tmp/" \o order[i], data |-> dir[order[i]]]]

\* zip_file.write(file_path, arcname=file_path.name) for each globbed path
ZipEntries(dir, order) ==
    [i \in DOMAIN order |-> [name |-> order[i], data |-> dir[order[i]]]]

\* variant: the except clause re-raises the exception as it is
ReraiseUnchanged(e) == e

\* what generate_pass_file's except clause raises for an exception e
WrapGenerateError(e) ==
    [kind |-> "AppleWalletError",
     message |-> "Failed to generate Apple Wallet pass file: " \o e.message]

PassNotFound(pass_id) ==
    [kind |-> "AppleWalletError", message |-> "Pass not found: " \o pass_id]

\* what the operation that follows a position raises when its I/O or its
\* cryptographic library fails
FaultAt(position) ==
    CASE position = "Retrieved" -> [kind |-> "OSError", message |-> "mkdtemp"]
      [] position = "TempCreated" -> [kind |-> "OSError", message |-> "pass.json"]
      [] position = "DocumentGenerated" -> [kind |-> "OSError", message |-> "manifest.json"]
      [] position = "ManifestBuilt" -> [kind |-> "OpenSSL.crypto.Error", message |-> "sign"]
      [] position = "Signed" -> [kind |-> "zipfile.BadZipFile", message |-> "zip"]

FaultPositions ==
    {"Retrieved", "TempCreated", "DocumentGenerated", "ManifestBuilt", "Signed"}
WithTempDir == {"TempCreated", "DocumentGenerated", "ManifestBuilt", "Signed", "Packaged"}

(***************************************************************************)
(* ApplePass.__init__: _validate_config, then the three loads.             *)
(***************************************************************************)
required_fields ==
    <<"apple_pass_type_identifier", "apple_team_identifier", "apple_organization_name",
      "apple_certificate_path", "apple_private_key_path", "apple_wwdr_certificate_path">>
path_fields ==
    <<"apple_certificate_path", "apple_private_key_path", "apple_wwdr_certificate_path">>

\* the configuration of the tests; an unset field holds "" (falsy, as None is)
ValidConfig ==
    [apple_pass_type_identifier |-> apple_pass_type_identifier,
     apple_team_identifier |-> apple_team_identifier,
     apple_organization_name |-> apple_organization_name,
     apple_certificate_path |-> "/path/to/cert.pem",
     apple_private_key_path |-> "/path/to/key.pem",
     apple_wwdr_certificate_path |-> "/path/to/wwdr.pem"]

Configs ==
    {c \in [DOMAIN ValidConfig -> {""} \cup {ValidConfig[f] : f \in DOMAIN ValidConfig}] :
        \A f \in DOMAIN ValidConfig : c[f] \in {"", ValidConfig[f]}}

\* the files a configuration can point at: a path that exists holds either
\* the PEM text of an object (named by the object) or bytes that do not parse
Garbage == "not PEM"
ValidDisk ==
    ("/path/to/cert.pem" :> "cert.pem") @@ ("/path/to/key.pem" :> "key.pem")
    @@ ("/path/to/wwdr.pem" :> "wwdr.pem")
Disks ==
    UNION {{d \in [paths -> {Garbage} \cup {ValidDisk[q] : q \in paths}] :
                \A q \in paths : d[q] \in {Garbage, ValidDisk[q]}} :
           paths \in SUBSET DOMAIN ValidDisk}

\* a CertificateError whose message is the prefix followed by the names,
\* joined with ", "
CertificateError(message, names) ==
    [ok |-> FALSE,
     error |-> [kind |-> "CertificateError", message |-> message, names |-> names]]

Unset(config, field) == config[field] = ""

\* variant: validation stops at the first unset field
ValidateConfigFirstOnly(config, disk) ==
    LET missing_fields == SelectSeq(required_fields, LAMBDA f : Unset(config, f))
        not_found == SelectSeq(path_fields, LAMBDA f : config[f] \notin DOMAIN disk)
    IN  IF missing_fields # <<>>
        THEN CertificateError("Missing required Apple Wallet configuration fields: ",
                              <<Head(missing_fields)>>)
        ELSE IF not_found # <<>>
        THEN CertificateError("File not found: ", <<config[Head(not_found)]>>)
        ELSE [ok |-> TRUE]

\* _validate_config: every unset field is collected into one error; the
\* existence loop raises at the first path that does not exist
ValidateConfig(config, disk) ==
    LET missing_fields == SelectSeq(required_fields, LAMBDA f : Unset(config, f))
        not_found == SelectSeq(path_fields, LAMBDA f : config[f] \notin DOMAIN disk)
    IN  IF missing_fields # <<>>
        THEN CertificateError("Missing required Apple Wallet configuration fields: ",
                              missing_fields)
        ELSE IF not_found # <<>>
        THEN CertificateError("File not found: ", <<config[Head(not_found)]>>)
        ELSE [ok |-> TRUE]

\* _load_certificate, _load_private_key, _load_wwdr_certificate: any failure
\* of open or of the PEM parser becomes a CertificateError naming the role
LoadPem(disk, path, role) ==
    IF path \in DOMAIN disk /\ disk[path] # Garbage
    THEN [ok |-> TRUE, value |-> disk[path]]
    ELSE CertificateError("Failed to load ", <<role>>)

NotLoaded == ""         \* an attribute __init__ has not assigned

\* __init__: what the caller receives and the attributes the object under
\* construction was given before the first failure
ApplePassInit(config, disk) ==
    LET valid == ValidateConfig(config, disk)
        cert == LoadPem(disk, config.apple_certificate_path, "Apple certificate")
        key == LoadPem(disk, config.apple_private_key_path, "Apple private key")
        wwdr == LoadPem(disk, config.apple_wwdr_certificate_path, "Apple WWDR certificate")
        unloaded == [certificate |-> NotLoaded, private_key |-> NotLoaded,
                     wwdr_certificate |-> NotLoaded]
    IN  IF ~valid.ok THEN [outcome |-> valid] @@ unloaded
        ELSE IF ~cert.ok THEN [outcome |-> cert] @@ unloaded
        ELSE IF ~key.ok THEN [outcome |-> key, certificate |-> cert.value] @@ unloaded
        ELSE IF ~wwdr.ok
        THEN [outcome |-> wwdr, certificate |-> cert.value,
              private_key |-> key.value] @@ unloaded
        ELSE [outcome |-> [ok |-> TRUE, value |-> "ApplePass"],
              certificate |-> cert.value, private_key |-> key.value,
              wwdr_certificate |-> wwdr.value]

NoCall == [op |-> ""]
ConstructorCall == [op |-> "__init__", config |-> ValidConfig, disk |-> ValidDisk]

(***************************************************************************)
(* storage.py: MemoryStorage and FileSystemStorage.                        *)
(***************************************************************************)
Backends == {"MemoryStorage", "FileSystemStorage"}
Providers == {"apple", "google"}                \* provider names callers use
StorageIds == {"test-123", "test-456"}          \* pass ids callers use
StorageDocs ==                                  \* pass data callers store
    {[id |-> "test-123", value |-> "test-value"],
     [id |-> "test-123", value |-> "new-value"]}

NothingStored == [b \in Backends |-> EmptyDict]

\* variant: one dictionary of passes shared by every provider
MemStorePassUnscoped(passes, provider, pass_id, pass_data) ==
    [q \in DOMAIN passes \cup {provider} |->
        (pass_id :> pass_data) @@ (IF q \in DOMAIN passes THEN passes[q] ELSE EmptyDict)]

\* MemoryStorage.store_pass
MemStorePass(passes, provider, pass_id, pass_data) ==
    LET of_provider == IF provider \in DOMAIN passes THEN passes[provider] ELSE EmptyDict
    IN  (provider :> ((pass_id :> pass_data) @@ of_provider)) @@ passes

MemHolds(passes, provider, pass_id) ==
    provider \in DOMAIN passes /\ pass_id \in DOMAIN passes[provider]

\* MemoryStorage.retrieve_pass
MemRetrievePass(passes, provider, pass_id) ==
    IF ~MemHolds(passes, provider, pass_id)
    THEN Raised("KeyError", "Pass not found: " \o provider \o "/" \o pass_id)
    ELSE Returned(passes[provider][pass_id])

\* MemoryStorage.delete_pass: del self.passes[provider][pass_id]
MemDeletePass(passes, provider, pass_id) ==
    [passes EXCEPT ![provider] = [i \in DOMAIN @ \ {pass_id} |-> @[i]]]

\* variant: list_passes returns the ids of every provider
MemListPassesAllProviders(passes, provider) ==
    IF provider \notin DOMAIN passes THEN {<<>>}
    ELSE GlobOrders([i \in UNION {DOMAIN passes[q] : q \in DOMAIN passes} |-> TRUE])

\* MemoryStorage.list_passes: list(self.passes[provider].keys()), the keys in
\* their insertion order, which is one of the orders of the keys
MemListPasses(passes, provider) ==
    IF provider \notin DOMAIN passes THEN {<<>>} ELSE GlobOrders(passes[provider])

\* f"{pass_id}.json" and Path.stem, which removes the last suffix
FileName(pass_id) == pass_id \o ".json"
Stem(name) == CHOOSE pass_id \in StorageIds : FileName(pass_id) = name
IsJsonName(name) == \E pass_id \in StorageIds : FileName(pass_id) = name

\* variant: every provider's files go to one directory
ProviderDirShared(provider) == "passes"

\* self.storage_path / provider / "passes"
ProviderDir(provider) == provider \o "/passes"

\* FileSystemStorage.store_pass: makedirs(exist_ok=True), then
\* json.dump(pass_data, f, indent=2) into the text-mode file
FsStorePass(fs, provider, pass_id, pass_data, codec) ==
    LET d == ProviderDir(provider)
        dir == IF d \in DOMAIN fs THEN fs[d] ELSE EmptyDict
    IN  (d :> WriteFile(dir, FileName(pass_id),
                        EncodeText(JsonDumps(pass_data, "indent2"), codec))) @@ fs

FsExists(fs, provider, pass_id) ==
    ProviderDir(provider) \in DOMAIN fs
    /\ FileName(pass_id) \in DOMAIN fs[ProviderDir(provider)]

\* FileSystemStorage.retrieve_pass
FsRetrievePass(fs, provider, pass_id) ==
    IF ~FsExists(fs, provider, pass_id)
    THEN Raised("FileNotFoundError", "Pass not found: " \o pass_id)
    ELSE Returned(JsonLoad(fs[ProviderDir(provider)][FileName(pass_id)]))

\* variant: delete_pass reports the removal and leaves the file in place
FsDeletePassKeepsFile(fs, provider, pass_id) == fs

\* FileSystemStorage.delete_pass: os.remove(pass_path)
FsDeletePass(fs, provider, pass_id) ==
    [fs EXCEPT ![ProviderDir(provider)] =
        [n \in DOMAIN @ \ {FileName(pass_id)} |-> @[n]]]

\* FileSystemStorage.list_passes: the stems of provider_dir.glob("*.json"),
\* in an order the OS chooses
FsListPasses(fs, provider) ==
    IF ProviderDir(provider) \notin DOMAIN fs THEN {<<>>}
    ELSE LET dir == fs[ProviderDir(provider)]
             json_files == [n \in {m \in DOMAIN dir : IsJsonName(m)} |-> dir[n]]
         IN  {[i \in DOMAIN o |-> Stem(o[i])] : o \in GlobOrders(json_files)}

(***************************************************************************)
(* Initial state: a constructed provider, an empty store, no call running. *)
(***************************************************************************)
Init ==
    /\ store = EmptyDict
    /\ now = 0
    /\ certificate = "cert.pem"
    /\ private_key = "key.pem"
    /\ wwdr_certificate = "wwdr.pem"
    /\ tmpfs = EmptyDict
    /\ pc = [c \in Calls |-> "Idle"]
    /\ arg_pass_id = [c \in Calls |-> ""]
    /\ pass_json = [c \in Calls |-> None]
    /\ temp_dir = [c \in Calls |-> ""]
    /\ manifest = [c \in Calls |-> None]
    /\ signature = [c \in Calls |-> None]
    /\ buffer = [c \in Calls |-> <<>>]
    /\ result = [c \in Calls |-> None]
    /\ raised = [c \in Calls |-> None]
    /\ error = [c \in Calls |-> None]
    /\ call = ConstructorCall
    /\ outcome = [ok |-> TRUE, value |-> "ApplePass"]
    /\ mem_passes = EmptyDict
    /\ fs_storage = EmptyDict
    /\ latest = NothingStored

(***************************************************************************)
(* create_pass, update_pass, void_pass. The caller issues them between     *)
(* calls of generate_pass_file, never while one is running (Quiescent).    *)
(***************************************************************************)
\* no call of generate_pass_file is running or holds an unread answer
Quiescent == \A c \in Calls : pc[c] = "Idle"

\* _generate_authentication_token: os.urandom(16).hex(), a fresh value on
\* every call
RandomTokens == {"rnd-1", "rnd-2"}

\* the PassResponse fields that identify the pass and carry its status
PassResponse(pass_id, pass_data, template, token, created_at, updated_at) ==
    [id |-> pass_id, template_id |-> template.id,
     serial_number |-> pass_data.serial_number, voided |-> pass_data.voided,
     authentication_token |-> token, created_at |-> created_at,
     updated_at |-> updated_at]

\* pass_json.get(key, default)
JsonGet(doc, key, default) == IF key \in DOMAIN doc THEN doc[key] ELSE default

WrapError(kind, prefix, e) == Raised(kind, prefix \o e.message)

\* variant: a pass that is not stored is answered with an empty response
GetPassLenient(st, pass_id) ==
    Returned([id |-> pass_id, template_id |-> "", serial_number |-> "",
              voided |-> FALSE, authentication_token |-> "",
              created_at |-> 0, updated_at |-> 0])

\* get_pass: the response read back from the stored document
GetPass(st, pass_id) ==
    IF ~PassExists(st, pass_id)
    THEN WrapError("AppleWalletError", "Failed to retrieve Apple pass: ",
                   PassNotFound(pass_id))
    ELSE LET doc == RetrievePassData(st, pass_id)
         IN  Returned([id |-> pass_id,
                       template_id |-> JsonGet(doc, "templateId", ""),
                       serial_number |-> doc.serialNumber,
                       voided |-> JsonGet(doc, "voided", FALSE),
                       authentication_token |-> JsonGet(doc, "authenticationToken", ""),
                       created_at |-> FromIsoFormat(doc.createdAt),
                       updated_at |-> FromIsoFormat(doc.updatedAt)])

\* a template without a pass type holds None there: template.pass_type.value
\* (line 347) raises AttributeError
NoPassType == ""

CreatePass(pass_data, template) ==
    /\ Quiescent
    /\ now < MaxTime
    /\ call' = [op |-> "create_pass", pass_data |-> pass_data, template |-> template]
    /\ IF template.pass_type = NoPassType
       THEN /\ outcome' = Raised("PassCreationError",
                                 "Failed to create Apple pass: AttributeError")
            /\ UNCHANGED store
       ELSE /\ \E codec \in LocaleEncodings :
                 store' = StorePassData(store, PassIdOf(pass_data.serial_number),
                                        GeneratePassJson(pass_data, template, now), codec)
            /\ \E token \in RandomTokens :
                 outcome' = Returned(PassResponse(PassIdOf(pass_data.serial_number),
                                                  pass_data, template, token, now, now))
    /\ now' = now + 1
    /\ UNCHANGED <<material, backends, tmpfs, pc, locals>>

\* variant: the regenerated document keeps the voided flag of the stored one
UpdatedDocumentKeepsVoided(existing, pass_data, template, t) ==
    (IF JsonGet(existing, "voided", FALSE) THEN "voided" :> TRUE ELSE EmptyDict)
       @@ GeneratePassJson(pass_data, template, t)

\* lines 130-134: the document update_pass stores is generated afresh from
\* pass_data and template; nothing of the stored document is carried over
UpdatedDocument(existing, pass_data, template, t) ==
    GeneratePassJson(pass_data, template, t)

\* get_pass raises for a pass that is not stored: update_pass then raises
\* PassCreationError and changes nothing.
UpdatePass(pass_id, pass_data, template) ==
    LET existing_pass == GetPass(store, pass_id)
    IN  /\ Quiescent
        /\ now < MaxTime
        /\ call' = [op |-> "update_pass", pass_id |-> pass_id, pass_data |-> pass_data,
                    template |-> template]
        /\ IF ~existing_pass.ok
           THEN /\ outcome' = WrapError("PassCreationError",
                                        "Failed to update Apple pass: ",
                                        existing_pass.error)
                /\ UNCHANGED store
           ELSE IF template.pass_type = NoPassType
           THEN /\ outcome' = Raised("PassCreationError",
                                     "Failed to update Apple pass: AttributeError")
                /\ UNCHANGED store
           ELSE /\ \E codec \in LocaleEncodings :
                     store' = StorePassData(store, pass_id,
                                  UpdatedDocument(RetrievePassData(store, pass_id),
                                                  pass_data, template, now), codec)
                /\ outcome' = Returned(PassResponse(pass_id, pass_data, template,
                                           existing_pass.value.authentication_token,
                                           existing_pass.value.created_at, now))
        /\ now' = now + 1
        /\ UNCHANGED <<material, backends, tmpfs, pc, locals>>

\* variant: the voided document is rebuilt from the identifying keys only
VoidedDocumentBare(doc) ==
    [serialNumber |-> doc.serialNumber, createdAt |-> doc.createdAt,
     updatedAt |-> doc.updatedAt, voided |-> TRUE]

\* line 194: pass_json['voided'] = True
VoidedDocument(doc) == ("voided" :> TRUE) @@ doc

\* void_pass raises AppleWalletError for a pass that is not stored.
VoidPass(pass_id) ==
    LET existing_pass == GetPass(store, pass_id)
    IN  /\ Quiescent
        /\ now < MaxTime
        /\ call' = [op |-> "void_pass", pass_id |-> pass_id]
        /\ IF ~existing_pass.ok
           THEN /\ outcome' = WrapError("AppleWalletError",
                                        "Failed to void Apple pass: ",
                                        existing_pass.error)
                /\ UNCHANGED store
           ELSE /\ \E codec \in LocaleEncodings :
                     store' = StorePassData(store, pass_id,
                                  VoidedDocument(RetrievePassData(store, pass_id)),
                                  codec)
                /\ outcome' = Returned([existing_pass.value EXCEPT
                                           !.voided = TRUE, !.updated_at = now])
        /\ now' = now + 1
        /\ UNCHANGED <<material, backends, tmpfs, pc, locals>>

\* get_pass called by the application: it reads the store and no clock
GetPassCall(pass_id) ==
    /\ Quiescent
    /\ call' = [op |-> "get_pass", pass_id |-> pass_id]
    /\ outcome' = GetPass(store, pass_id)
    /\ UNCHANGED <<store, now, material, backends, tmpfs, pc, locals>>

(***************************************************************************)
(* generate_pass_file, step by step.                                       *)
(***************************************************************************)
\* line 211: pass_json = self._retrieve_pass_data(pass_id)
GenRetrieve(c, pass_id) ==
    /\ pc[c] = "Idle"
    /\ arg_pass_id' = [arg_pass_id EXCEPT ![c] = pass_id]
    /\ IF PassExists(store, pass_id)
       THEN /\ pass_json' = [pass_json EXCEPT ![c] = RetrievePassData(store, pass_id)]
            /\ pc' = [pc EXCEPT ![c] = "Retrieved"]
            /\ UNCHANGED <<raised, error>>
       ELSE /\ raised' = [raised EXCEPT ![c] = PassNotFound(pass_id)]
            /\ error' = [error EXCEPT ![c] = WrapGenerateError(PassNotFound(pass_id))]
            /\ pc' = [pc EXCEPT ![c] = "Failed"]
            /\ UNCHANGED pass_json
    /\ UNCHANGED <<store, now, material, api, backends, tmpfs, temp_dir, manifest, signature,
                   buffer, result>>

\* variant: every call stages into one fixed directory (mkdir, exist_ok)
GenMakeTempDirShared(c) ==
    /\ pc[c] = "Retrieved"
    /\ LET d == CHOOSE n \in TempNames : TRUE
       IN  /\ tmpfs' = IF d \in DOMAIN tmpfs THEN tmpfs ELSE (d :> EmptyDict) @@ tmpfs
           /\ temp_dir' = [temp_dir EXCEPT ![c] = d]
    /\ pc' = [pc EXCEPT ![c] = "TempCreated"]
    /\ UNCHANGED <<store, now, material, api, backends, arg_pass_id, pass_json, manifest,
                   signature, buffer, result, raised, error>>

\* line 214: with tempfile.TemporaryDirectory() as temp_dir
GenMakeTempDir(c) ==
    /\ pc[c] = "Retrieved"
    /\ \E d \in TempNames \ DOMAIN tmpfs :
         /\ tmpfs' = (d :> EmptyDict) @@ tmpfs
         /\ temp_dir' = [temp_dir EXCEPT ![c] = d]
    /\ pc' = [pc EXCEPT ![c] = "TempCreated"]
    /\ UNCHANGED <<store, now, material, api, backends, arg_pass_id, pass_json, manifest,
                   signature, buffer, result, raised, error>>

\* variant: the document is refreshed before it is staged (its updatedAt is
\* set to the time of the call)
GenStageDocumentRefreshed(c, template) ==
    /\ pc[c] = "TempCreated"
    /\ \E codec \in LocaleEncodings :
         tmpfs' = [tmpfs EXCEPT ![temp_dir[c]] =
                     WriteFile(@, "pass.json",
                               EncodeText(JsonDumps([pass_json[c] EXCEPT
                                                       !.updatedAt = IsoFormat(now)],
                                                    "compact"), codec))]
    /\ pc' = [pc EXCEPT ![c] = "DocumentGenerated"]
    /\ UNCHANGED <<store, now, material, api, backends, arg_pass_id, pass_json, temp_dir,
                   manifest, signature, buffer, result, raised, error>>

\* lines 218-222: write pass.json, add the images
GenStageDocument(c, template) ==
    /\ pc[c] = "TempCreated"
    /\ \E codec \in LocaleEncodings :
         tmpfs' = [tmpfs EXCEPT ![temp_dir[c]] =
                     AddPassImages(
                         WriteFile(@, "pass.json",
                                   EncodeText(JsonDumps(pass_json[c], "compact"), codec)),
                         template)]
    /\ pc' = [pc EXCEPT ![c] = "DocumentGenerated"]
    /\ UNCHANGED <<store, now, material, api, backends, arg_pass_id, pass_json, temp_dir,
                   manifest, signature, buffer, result, raised, error>>

\* lines 225-227: build the manifest, write manifest.json
GenCreateManifest(c) ==
    /\ pc[c] = "DocumentGenerated"
    /\ LET m == CreateManifest(tmpfs[temp_dir[c]])
       IN  /\ manifest' = [manifest EXCEPT ![c] = m]
           /\ \E codec \in LocaleEncodings :
                tmpfs' = [tmpfs EXCEPT ![temp_dir[c]] =
                            WriteFile(@, "manifest.json", ManifestFileBytes(m, codec))]
    /\ pc' = [pc EXCEPT ![c] = "ManifestBuilt"]
    /\ UNCHANGED <<store, now, material, api, backends, arg_pass_id, pass_json, temp_dir,
                   signature, buffer, result, raised, error>>

\* lines 230-232: sign the manifest, write the signature
GenSignManifest(c) ==
    /\ pc[c] = "ManifestBuilt"
    /\ LET s == SignManifest(manifest[c], certificate, private_key, wwdr_certificate)
       IN  /\ signature' = [signature EXCEPT ![c] = s]
           /\ tmpfs' = [tmpfs EXCEPT ![temp_dir[c]] = WriteFile(@, "signature", s)]
    /\ pc' = [pc EXCEPT ![c] = "Signed"]
    /\ UNCHANGED <<store, now, material, api, backends, arg_pass_id, pass_json, temp_dir,
                   manifest, buffer, result, raised, error>>

\* variant: packaging does not wait for the signature
GenPackageEarly(c) ==
    /\ pc[c] \in {"ManifestBuilt", "Signed"}
    /\ \E order \in GlobOrders(tmpfs[temp_dir[c]]) :
         buffer' = [buffer EXCEPT ![c] = ZipEntries(tmpfs[temp_dir[c]], order)]
    /\ pc' = [pc EXCEPT ![c] = "Packaged"]
    /\ UNCHANGED <<store, now, material, api, backends, tmpfs, arg_pass_id, pass_json, temp_dir,
                   manifest, signature, result, raised, error>>

\* lines 235-238: zip every file of the temporary directory into the buffer
GenPackage(c) ==
    /\ pc[c] = "Signed"
    /\ \E order \in GlobOrders(tmpfs[temp_dir[c]]) :
         buffer' = [buffer EXCEPT ![c] = ZipEntries(tmpfs[temp_dir[c]], order)]
    /\ pc' = [pc EXCEPT ![c] = "Packaged"]
    /\ UNCHANGED <<store, now, material, api, backends, tmpfs, arg_pass_id, pass_json, temp_dir,
                   manifest, signature, result, raised, error>>

\* variant: the generated document is written back to the store on return
GenReturnStoresBack(c) ==
    /\ pc[c] = "Packaged"
    /\ result' = [result EXCEPT ![c] = [zip |-> buffer[c]]]
    /\ tmpfs' = RemoveTree(tmpfs, temp_dir[c])
    /\ store' = StorePassData(store, arg_pass_id[c],
                              [pass_json[c] EXCEPT !.updatedAt = IsoFormat(now)], "utf-8")
    /\ pc' = [pc EXCEPT ![c] = "Done"]
    /\ UNCHANGED <<now, material, api, backends, arg_pass_id, pass_json, temp_dir,
                   manifest, signature, buffer, raised, error>>

\* lines 241-242 and the end of the with block: return the buffer's bytes,
\* the temporary directory is removed
GenReturn(c) ==
    /\ pc[c] = "Packaged"
    /\ result' = [result EXCEPT ![c] = [zip |-> buffer[c]]]
    /\ tmpfs' = RemoveTree(tmpfs, temp_dir[c])
    /\ pc' = [pc EXCEPT ![c] = "Done"]
    /\ UNCHANGED <<store, now, material, api, backends, arg_pass_id, pass_json, temp_dir,
                   manifest, signature, buffer, raised, error>>

\* variant: a failing operation is logged and what was built so far is returned
GenFaultSwallowed(c) ==
    /\ pc[c] \in FaultPositions
    /\ raised' = [raised EXCEPT ![c] = FaultAt(pc[c])]
    /\ result' = [result EXCEPT ![c] =
                    IF pc[c] \in WithTempDir
                    THEN [zip |-> ZipEntries(tmpfs[temp_dir[c]],
                                             CHOOSE o \in GlobOrders(tmpfs[temp_dir[c]]) : TRUE)]
                    ELSE [zip |-> <<>>]]
    /\ tmpfs' = IF pc[c] \in WithTempDir THEN RemoveTree(tmpfs, temp_dir[c]) ELSE tmpfs
    /\ pc' = [pc EXCEPT ![c] = "Done"]
    /\ UNCHANGED <<store, now, material, api, backends, arg_pass_id, pass_json, temp_dir,
                   manifest, signature, buffer, error>>

\* variant: the temporary directory is made with mkdtemp and removed only on
\* the normal path
GenFaultLeaksTemp(c) ==
    /\ pc[c] \in FaultPositions
    /\ raised' = [raised EXCEPT ![c] = FaultAt(pc[c])]
    /\ error' = [error EXCEPT ![c] = WrapGenerateError(FaultAt(pc[c]))]
    /\ pc' = [pc EXCEPT ![c] = "Failed"]
    /\ UNCHANGED <<store, now, material, api, backends, tmpfs, arg_pass_id, pass_json, temp_dir,
                   manifest, signature, buffer, result>>

\* lines 214, 243-244: the next operation raises; the with block removes the
\* temporary directory when it was entered; the except clause wraps the
\* exception; nothing is returned
GenFault(c) ==
    /\ pc[c] \in FaultPositions
    /\ raised' = [raised EXCEPT ![c] = FaultAt(pc[c])]
    /\ error' = [error EXCEPT ![c] = WrapGenerateError(FaultAt(pc[c]))]
    /\ tmpfs' = IF pc[c] \in WithTempDir THEN RemoveTree(tmpfs, temp_dir[c]) ELSE tmpfs
    /\ pc' = [pc EXCEPT ![c] = "Failed"]
    /\ UNCHANGED <<store, now, material, api, backends, arg_pass_id, pass_json, temp_dir,
                   manifest, signature, buffer, result>>

\* line 207: the caller has its answer; the next call starts with fresh locals
GenNewCall(c) ==
    /\ pc[c] \in {"Done", "Failed"}
    /\ pc' = [pc EXCEPT ![c] = "Idle"]
    /\ arg_pass_id' = [arg_pass_id EXCEPT ![c] = ""]
    /\ pass_json' = [pass_json EXCEPT ![c] = None]
    /\ temp_dir' = [temp_dir EXCEPT ![c] = ""]
    /\ manifest' = [manifest EXCEPT ![c] = None]
    /\ signature' = [signature EXCEPT ![c] = None]
    /\ buffer' = [buffer EXCEPT ![c] = <<>>]
    /\ result' = [result EXCEPT ![c] = None]
    /\ raised' = [raised EXCEPT ![c] = None]
    /\ error' = [error EXCEPT ![c] = None]
    /\ UNCHANGED <<store, now, material, api, backends, tmpfs>>

GenStep(c) ==
    \/ \E pass_id \in PassIds : GenRetrieve(c, pass_id)
    \/ GenMakeTempDir(c)
    \/ \E template \in Templates : GenStageDocument(c, template)
    \/ GenCreateManifest(c)
    \/ GenSignManifest(c)
    \/ GenPackage(c)
    \/ GenReturn(c)
    \/ GenFault(c)
    \/ GenNewCall(c)

(***************************************************************************)
(* Spec: one caller, one operation at a time.                              *)
(* ConcSpec: the callers of Calls run generate_pass_file concurrently.     *)
(***************************************************************************)
Next ==
    \/ \E pass_data \in PassDatas, template \in Templates :
         CreatePass(pass_data, template)
    \/ \E pass_id \in PassIds, pass_data \in PassDatas, template \in Templates :
         UpdatePass(pass_id, pass_data, template)
    \/ \E pass_id \in PassIds : VoidPass(pass_id)
    \/ GenStep(MainCall)

Spec == Init /\ [][Next]_vars

(***************************************************************************)
(* The pass API without generate_pass_file: create_pass, update_pass,      *)
(* void_pass and get_pass called one after the other.                      *)
(***************************************************************************)
ApiNext ==
    \/ \E pass_data \in PassDatas, template \in Templates :
         CreatePass(pass_data, template)
    \/ \E pass_id \in PassIds, pass_data \in PassDatas, template \in Templates :
         UpdatePass(pass_id, pass_data, template)
    \/ \E pass_id \in PassIds : VoidPass(pass_id)
    \/ \E pass_id \in PassIds : GetPassCall(pass_id)

ApiSpec == Init /\ [][ApiNext]_vars

\* a provider whose store holds the pass of serial s1 and, possibly, the pass
\* of serial s2, each as create_pass stored it
ConcStores ==
    LET pd1 == [serial_number |-> "s1", customer_id |-> "cust-1", voided |-> FALSE,
                expiration_date |-> None, relevant_date |-> None,
                barcode_message |-> "", barcode_alt_text |-> "",
                field_values |-> [event_name |-> "Sold Out Gig"]]
        pd2 == [pd1 EXCEPT !.serial_number = "s2", !.voided = TRUE,
                           !.field_values = EmptyDict]
        st1 == StorePassData(EmptyDict, PassIdOf("s1"),
                             GeneratePassJson(pd1, EventTemplate, 0), "utf-8")
        st2 == StorePassData(st1, PassIdOf("s2"),
                             GeneratePassJson(pd2, GenericTemplate, 1), "utf-8")
    IN  {st1, st2}

ConcInit ==
    /\ store \in ConcStores
    /\ now = Cardinality(DOMAIN store)
    /\ certificate = "cert.pem"
    /\ private_key = "key.pem"
    /\ wwdr_certificate = "wwdr.pem"
    /\ tmpfs = EmptyDict
    /\ pc = [c \in Calls |-> "Idle"]
    /\ arg_pass_id = [c \in Calls |-> ""]
    /\ pass_json = [c \in Calls |-> None]
    /\ temp_dir = [c \in Calls |-> ""]
    /\ manifest = [c \in Calls |-> None]
    /\ signature = [c \in Calls |-> None]
    /\ buffer = [c \in Calls |-> <<>>]
    /\ result = [c \in Calls |-> None]
    /\ raised = [c \in Calls |-> None]
    /\ error = [c \in Calls |-> None]
    /\ call = ConstructorCall
    /\ outcome = [ok |-> TRUE, value |-> "ApplePass"]
    /\ mem_passes = EmptyDict
    /\ fs_storage = EmptyDict
    /\ latest = NothingStored

ConcNext == \E c \in Calls : GenStep(c)

ConcSpec == ConcInit /\ [][ConcNext]_vars

(***************************************************************************)
(* Reading an archive: its entry names and the bytes of a named entry.     *)
(***************************************************************************)
ArchiveNames(zip) == {zip[i].name : i \in DOMAIN zip}
ArchiveFile(zip, name) == zip[CHOOSE i \in DOMAIN zip : zip[i].name = name].data
PackageNames == {"pass.json", "manifest.json", "signature"}

(***************************************************************************)
(* C1: a call of generate_pass_file moves through the stages                *)
(* Idle -> DocumentGenerated -> ManifestBuilt -> Signed -> Packaged -> Done *)
(* in that order only; the manifest is built only when pass.json is staged, *)
(* the signature only when manifest.json exists, packaging only when the    *)
(* signature is written; a stage is never repeated; a failure leads to      *)
(* Failed, and from Failed (as from Done) only a new call starts.           *)
(***************************************************************************)
StageOf(position) ==
    IF position \in {"Idle", "Retrieved", "TempCreated"} THEN "Idle" ELSE position

StageEdges ==
    {<<"Idle", "DocumentGenerated">>, <<"DocumentGenerated", "ManifestBuilt">>,
     <<"ManifestBuilt", "Signed">>, <<"Signed", "Packaged">>, <<"Packaged", "Done">>}
    \cup {<<s, "Failed">> : s \in {"Idle", "DocumentGenerated", "ManifestBuilt",
                                   "Signed", "Packaged"}}
    \cup {<<"Done", "Idle">>, <<"Failed", "Idle">>}

StagedFiles(c) == IF temp_dir[c] \in DOMAIN tmpfs THEN DOMAIN tmpfs[temp_dir[c]] ELSE {}

C1_StageStep(c) ==
    /\ StageOf(pc[c]) # StageOf(pc'[c]) =>
          <<StageOf(pc[c]), StageOf(pc'[c])>> \in StageEdges
    /\ pc'[c] # pc[c] /\ pc'[c] = "ManifestBuilt" => "pass.json" \in StagedFiles(c)
    /\ pc'[c] # pc[c] /\ pc'[c] = "Signed" => "manifest.json" \in StagedFiles(c)
    /\ pc'[c] # pc[c] /\ pc'[c] = "Packaged" => "signature" \in StagedFiles(c)
    /\ pc[c] \in {"Done", "Failed"} /\ pc'[c] # pc[c] =>
          /\ pc'[c] = "Idle"
          /\ result'[c] = None /\ error'[c] = None /\ pass_json'[c] = None

C1_StageOrder == [][\A c \in Calls : C1_StageStep(c)]_vars

C1_Witness ==
    /\ pc[MainCall] = "Done"
    /\ ArchiveNames(result[MainCall].zip) = PackageNames

(***************************************************************************)
(* C2: in a returned archive, the bytes the signature was computed over are *)
(* the bytes of the archive's manifest.json entry.                          *)
(***************************************************************************)
C2_SignedBytesArePackaged ==
    \A c \in Calls : pc[c] = "Done" =>
        /\ {"manifest.json", "signature"} \subseteq ArchiveNames(result[c].zip)
        /\ ArchiveFile(result[c].zip, "signature").pkcs7_der.content
             = ArchiveFile(result[c].zip, "manifest.json")

C2_Witness ==
    /\ pc[MainCall] = "Done"
    /\ DOMAIN JsonLoad(ArchiveFile(result[MainCall].zip, "manifest.json")) = {"pass.json"}
    /\ ArchiveFile(result[MainCall].zip, "signature") = signature[MainCall]

(***************************************************************************)
(* C3: in a returned archive, the manifest's keys are the archive's entry   *)
(* names other than manifest.json and signature, and each value is the     *)
(* SHA-1 hex digest of that entry's bytes.                                  *)
(***************************************************************************)
C3_ManifestCoversArchive ==
    \A c \in Calls : pc[c] = "Done" =>
        LET zip == result[c].zip
            m == JsonLoad(ArchiveFile(zip, "manifest.json"))
        IN  /\ "manifest.json" \in ArchiveNames(zip)
            /\ DOMAIN m = ArchiveNames(zip) \ {"manifest.json", "signature"}
            /\ \A n \in DOMAIN m : m[n] = Sha1Hex(ArchiveFile(zip, n))

C3_Witness ==
    /\ pc[MainCall] = "Done"
    /\ "pass.json" \in DOMAIN JsonLoad(ArchiveFile(result[MainCall].zip, "manifest.json"))
    /\ "voided" \in DOMAIN JsonLoad(ArchiveFile(result[MainCall].zip, "pass.json"))

(***************************************************************************)
(* C4: a call in which an operation raised ends Failed with an error and    *)
(* returns nothing; whatever is returned is a complete archive (document,  *)
(* manifest and signature) of a call in which nothing raised.               *)
(***************************************************************************)
C4_NoPartialOutput ==
    \A c \in Calls :
        /\ (raised[c] # None \/ pc[c] = "Failed") =>
              pc[c] = "Failed" /\ result[c] = None /\ error[c] # None
        /\ result[c] # None =>
              /\ pc[c] = "Done" /\ raised[c] = None /\ error[c] = None
              /\ PackageNames \subseteq ArchiveNames(result[c].zip)

C4_Witness ==
    /\ pc[MainCall] = "Failed"
    /\ raised[MainCall].kind = "OpenSSL.crypto.Error"
    /\ manifest[MainCall] # None
    /\ result[MainCall] = None

(***************************************************************************)
(* C5: a returned archive has exactly one entry for each of pass.json,      *)
(* manifest.json, signature and each staged asset (none is staged), named  *)
(* by the bare file name, and no other entry.                               *)
(***************************************************************************)
C5_ArchiveEntries ==
    \A c \in Calls : pc[c] = "Done" =>
        LET zip == result[c].zip
            assets == DOMAIN AddPassImages(EmptyDict, EventTemplate)
        IN  /\ ArchiveNames(zip) = PackageNames \cup assets
            /\ Len(zip) = Cardinality(PackageNames \cup assets)

C5_Witness ==
    /\ pc[MainCall] = "Done"
    /\ Len(result[MainCall].zip) = Cardinality(PackageNames)
    /\ result[MainCall].zip[1].name = "signature"

(***************************************************************************)
(* C6: the archive a call returns packages the document that is stored for *)
(* the pass_id when the call is made (the one the latest create_pass,      *)
(* update_pass or void_pass left), with a manifest and a signature made    *)
(* from that document in this call.                                        *)
(***************************************************************************)
C6_PackagesStoredDocument ==
    \A c \in Calls : pc[c] = "Done" =>
        LET zip == result[c].zip
            doc == RetrievePassData(store, arg_pass_id[c])
            m == JsonLoad(ArchiveFile(zip, "manifest.json"))
        IN  /\ PassExists(store, arg_pass_id[c])
            /\ PackageNames \subseteq ArchiveNames(zip)
            /\ JsonLoad(ArchiveFile(zip, "pass.json")) = doc
            /\ m["pass.json"] = Sha1Hex(EncodeText(JsonDumps(doc, "compact"), "utf-8"))
            /\ ArchiveFile(zip, "signature") =
                 SignManifest(m, certificate, private_key, wwdr_certificate)

\* the stored document was written by update_pass (only update_pass files a
\* document under a pass_id of another serial number) and the archive shows it
C6_Witness ==
    /\ pc[MainCall] = "Done"
    /\ now >= 2
    /\ LET doc == JsonLoad(ArchiveFile(result[MainCall].zip, "pass.json"))
       IN  /\ PassIdOf(doc.serialNumber) # arg_pass_id[MainCall]
           /\ doc.createdAt = IsoFormat(now - 1)

(***************************************************************************)
(* C7: a temporary directory exists only while the call that made it is    *)
(* between its creation and its return or failure; it holds only the files *)
(* that call staged; two calls never use the same directory.               *)
(***************************************************************************)
\* the files a call has staged at its position, from its own locals
OwnFiles(c) ==
    (IF pc[c] \in {"DocumentGenerated", "ManifestBuilt", "Signed", "Packaged"}
     THEN "pass.json" :> EncodeText(JsonDumps(pass_json[c], "compact"), "utf-8")
     ELSE EmptyDict)
    @@ (IF pc[c] \in {"ManifestBuilt", "Signed", "Packaged"}
        THEN "manifest.json" :> EncodeText(JsonDumps(manifest[c], "compact"), "utf-8")
        ELSE EmptyDict)
    @@ (IF pc[c] \in {"Signed", "Packaged"}
        THEN "signature" :> signature[c]
        ELSE EmptyDict)

C7_TempDirScoped ==
    /\ DOMAIN tmpfs = {temp_dir[c] : c \in {x \in Calls : pc[x] \in WithTempDir}}
    /\ \A c \in Calls : pc[c] \in WithTempDir =>
          /\ tmpfs[temp_dir[c]] = OwnFiles(c)
          /\ \A other \in Calls \ {c} :
                pc[other] \in WithTempDir => temp_dir[other] # temp_dir[c]

C7_Witness ==
    /\ pc[MainCall] = "Failed"
    /\ raised[MainCall].kind = "zipfile.BadZipFile"
    /\ temp_dir[MainCall] # ""
    /\ DOMAIN tmpfs = {}

(***************************************************************************)
(* C8: no step of generate_pass_file, successful or failing, changes the   *)
(* stored passes or the provider's certificate, private key or WWDR        *)
(* certificate.                                                            *)
(***************************************************************************)
C8_GenerateFrame ==
    [][pc' # pc => store' = store /\ material' = material]_vars

C8_Witness ==
    /\ pc[MainCall] = "Done"
    /\ DOMAIN store = PassIds
    /\ certificate = "cert.pem" /\ private_key = "key.pem"
    /\ wwdr_certificate = "wwdr.pem"

(***************************************************************************)
(* C9: with calls of generate_pass_file interleaved, every call that       *)
(* returns returns an archive of its own pass as a call running alone      *)
(* builds it, every running call's directory holds only its own files, and *)
(* no two running calls share a directory.                                 *)
(***************************************************************************)
\* the directory a call running alone has built for a document
AloneDir(doc) ==
    LET d1 == WriteFile(EmptyDict, "pass.json",
                        EncodeText(JsonDumps(doc, "compact"), "utf-8"))
        m == CreateManifest(d1)
        d2 == WriteFile(d1, "manifest.json", ManifestFileBytes(m, "utf-8"))
    IN  WriteFile(d2, "signature",
                  SignManifest(m, certificate, private_key, wwdr_certificate))

C9_ConcurrentCallsIsolated ==
    \A c \in Calls :
        /\ pc[c] = "Done" =>
              \E order \in GlobOrders(AloneDir(RetrievePassData(store, arg_pass_id[c]))) :
                  result[c].zip =
                      ZipEntries(AloneDir(RetrievePassData(store, arg_pass_id[c])), order)
        /\ pc[c] \in WithTempDir =>
              /\ temp_dir[c] \in DOMAIN tmpfs
              /\ tmpfs[temp_dir[c]] = OwnFiles(c)
              /\ \A other \in Calls \ {c} :
                    pc[other] \in WithTempDir => temp_dir[other] # temp_dir[c]

C9_Witness ==
    /\ \A c \in Calls : pc[c] = "Packaged"
    /\ \E c1, c2 \in Calls :
          /\ arg_pass_id[c1] # arg_pass_id[c2]
          /\ temp_dir[c1] # temp_dir[c2]
          /\ pass_json[c1] # pass_json[c2]

ApplePassTypes ==
    {"APPLE_GENERIC", "APPLE_EVENTTICKET", "APPLE_COUPON", "APPLE_STORECARD",
     "APPLE_BOARDINGPASS"}
OtherPassTypes == {"GOOGLE_OFFER", "SAMSUNG_COUPON"}

\* create_event_pass_template("Concert", "test-org", "apple")
ConcertTemplate ==
    [id |-> "tpl-concert", name |-> "Concert", description |-> "Concert Event Ticket",
     organization_id |-> "test-org", pass_type |-> "APPLE_EVENTTICKET",
     style |-> [background_color |-> "#FFFFFF", foreground_color |-> "#000000",
                label_color |-> "#999999", logo_text |-> "Concert"],
     barcode_format |-> "PKBarcodeFormatQR", authentication_token |-> "",
     web_service_url |-> "",
     structure |-> [header_fields |-> <<Field("event_name", "Event", "Concert")>>,
                    primary_fields |-> <<Field("event_date", "Date", "")>>,
                    secondary_fields |-> <<Field("event_location", "Location", "")>>,
                    auxiliary_fields |-> <<Field("ticket_type", "Ticket Type",
                                                 "General Admission")>>,
                    back_fields |-> <<Field("event_details", "Details", "")>>]]

FieldSeqs ==
    {<<>>,
     <<Field("event_name", "Event", "Concert")>>,
     <<Field("event_name", "Event", "Concert"), Field("event_date", "Date", "")>>,
     <<Field("event_date", "Date", ""), Field("event_name", "Event", "Concert")>>}

DocStructures ==
    [header_fields : FieldSeqs, primary_fields : FieldSeqs,
     secondary_fields : {<<>>, ConcertTemplate.structure.secondary_fields},
     auxiliary_fields : {<<>>, ConcertTemplate.structure.auxiliary_fields},
     back_fields : {<<>>, ConcertTemplate.structure.back_fields}]

DocStyles ==
    [background_color : {"", "#FFFFFF"}, foreground_color : {"", "#000000"},
     label_color : {"", "#999999"}, logo_text : {"", "Concert"}]

DocTemplates ==
    {[ConcertTemplate EXCEPT !.structure = st] : st \in DocStructures}
    \cup {[ConcertTemplate EXCEPT !.style = sy] : sy \in DocStyles}
    \cup {[ConcertTemplate EXCEPT !.pass_type = pt] :
             pt \in ApplePassTypes \cup OtherPassTypes \cup {NoPassType}}
    \cup {[ConcertTemplate EXCEPT !.id = ""],
          [ConcertTemplate EXCEPT !.organization_id = ""]}

DocPassDatas ==
    [serial_number : {"s1"}, customer_id : {"cust-1"}, voided : {FALSE},
     expiration_date : {None}, relevant_date : {None},
     barcode_message : {""}, barcode_alt_text : {""},
     field_values : {EmptyDict,
                     [event_name |-> "Sold Out Gig"],
                     [event_date |-> "2025-06-01"],
                     [event_name |-> "Sold Out Gig", event_date |-> "2025-06-01"],
                     [seat |-> "12A"],
                     [event_name |-> "Sold Out Gig", seat |-> "12A"]}]

DocNext ==
    \E pass_data \in DocPassDatas, template \in DocTemplates :
        CreatePass(pass_data, template)

\* a constructed provider with an empty store, about to serve one call
DocInit ==
    /\ store = EmptyDict
    /\ now = MaxTime - 1
    /\ certificate = "cert.pem"
    /\ private_key = "key.pem"
    /\ wwdr_certificate = "wwdr.pem"
    /\ tmpfs = EmptyDict
    /\ pc = [c \in Calls |-> "Idle"]
    /\ arg_pass_id = [c \in Calls |-> ""]
    /\ pass_json = [c \in Calls |-> None]
    /\ temp_dir = [c \in Calls |-> ""]
    /\ manifest = [c \in Calls |-> None]
    /\ signature = [c \in Calls |-> None]
    /\ buffer = [c \in Calls |-> <<>>]
    /\ result = [c \in Calls |-> None]
    /\ raised = [c \in Calls |-> None]
    /\ error = [c \in Calls |-> None]
    /\ call = ConstructorCall
    /\ outcome = [ok |-> TRUE, value |-> "ApplePass"]
    /\ mem_passes = EmptyDict
    /\ fs_storage = EmptyDict
    /\ latest = NothingStored

DocSpec == DocInit /\ [][DocNext]_vars

(***************************************************************************)
(* Provider construction on its own: ApplePass(config) for configurations  *)
(* with unset fields and for certificate files that are missing or do not  *)
(* parse.                                                                  *)
(***************************************************************************)
ConstructInit ==
    /\ store = EmptyDict
    /\ now = 0
    /\ certificate = NotLoaded
    /\ private_key = NotLoaded
    /\ wwdr_certificate = NotLoaded
    /\ tmpfs = EmptyDict
    /\ pc = [c \in Calls |-> "Idle"]
    /\ arg_pass_id = [c \in Calls |-> ""]
    /\ pass_json = [c \in Calls |-> None]
    /\ temp_dir = [c \in Calls |-> ""]
    /\ manifest = [c \in Calls |-> None]
    /\ signature = [c \in Calls |-> None]
    /\ buffer = [c \in Calls |-> <<>>]
    /\ result = [c \in Calls |-> None]
    /\ raised = [c \in Calls |-> None]
    /\ error = [c \in Calls |-> None]
    /\ call = NoCall
    /\ outcome = Returned("")
    /\ mem_passes = EmptyDict
    /\ fs_storage = EmptyDict
    /\ latest = NothingStored

\* ApplePass(config), with the files the paths of config lead to
Construct(config, disk) ==
    /\ call = NoCall
    /\ call' = [op |-> "__init__", config |-> config, disk |-> disk]
    /\ outcome' = ApplePassInit(config, disk).outcome
    /\ certificate' = ApplePassInit(config, disk).certificate
    /\ private_key' = ApplePassInit(config, disk).private_key
    /\ wwdr_certificate' = ApplePassInit(config, disk).wwdr_certificate
    /\ UNCHANGED <<store, now, backends, tmpfs, pc, locals>>

ConstructNext == \E config \in Configs, disk \in Disks : Construct(config, disk)

ConstructSpec == ConstructInit /\ [][ConstructNext]_vars

(***************************************************************************)
(* The storage backends on their own: callers store and delete pass data   *)
(* in a MemoryStorage and in a FileSystemStorage.                          *)
(***************************************************************************)
StorageCall(op, backend, provider, pass_id) ==
    [op |-> op, backend |-> backend, provider |-> provider, pass_id |-> pass_id]

\* create_storage_backend hands a caller one backend: the calls of a
\* behaviour all go to the backend of its first call
Chosen(backend) ==
    call.op \in {"store_pass", "delete_pass"} => call.backend = backend

Remember(backend, provider, pass_id, pass_data) ==
    [latest EXCEPT ![backend] = (<<provider, pass_id>> :> pass_data) @@ @]
Forget(backend, provider, pass_id) ==
    [latest EXCEPT ![backend] = [k \in DOMAIN @ \ {<<provider, pass_id>>} |-> @[k]]]

\* MemoryStorage.store_pass(provider, pass_id, pass_data)
MemoryStore(provider, pass_id, pass_data) ==
    /\ Chosen("MemoryStorage")
    /\ mem_passes' = MemStorePass(mem_passes, provider, pass_id, pass_data)
    /\ latest' = Remember("MemoryStorage", provider, pass_id, pass_data)
    /\ call' = StorageCall("store_pass", "MemoryStorage", provider, pass_id)
    /\ outcome' = Returned(None)
    /\ UNCHANGED <<fs_storage, store, now, material, tmpfs, pc, locals>>

\* MemoryStorage.delete_pass(provider, pass_id)
MemoryDelete(provider, pass_id) ==
    /\ Chosen("MemoryStorage")
    /\ IF MemHolds(mem_passes, provider, pass_id)
       THEN /\ mem_passes' = MemDeletePass(mem_passes, provider, pass_id)
            /\ outcome' = Returned(TRUE)
       ELSE /\ UNCHANGED mem_passes
            /\ outcome' = Returned(FALSE)
    /\ latest' = Forget("MemoryStorage", provider, pass_id)
    /\ call' = StorageCall("delete_pass", "MemoryStorage", provider, pass_id)
    /\ UNCHANGED <<fs_storage, store, now, material, tmpfs, pc, locals>>

\* FileSystemStorage.store_pass(provider, pass_id, pass_data)
FileSystemStore(provider, pass_id, pass_data) ==
    /\ Chosen("FileSystemStorage")
    /\ \E codec \in LocaleEncodings :
         fs_storage' = FsStorePass(fs_storage, provider, pass_id, pass_data, codec)
    /\ latest' = Remember("FileSystemStorage", provider, pass_id, pass_data)
    /\ call' = StorageCall("store_pass", "FileSystemStorage", provider, pass_id)
    /\ outcome' = Returned(None)
    /\ UNCHANGED <<mem_passes, store, now, material, tmpfs, pc, locals>>

\* FileSystemStorage.delete_pass(provider, pass_id)
FileSystemDelete(provider, pass_id) ==
    /\ Chosen("FileSystemStorage")
    /\ IF FsExists(fs_storage, provider, pass_id)
       THEN /\ fs_storage' = FsDeletePass(fs_storage, provider, pass_id)
            /\ outcome' = Returned(TRUE)
       ELSE /\ UNCHANGED fs_storage
            /\ outcome' = Returned(FALSE)
    /\ latest' = Forget("FileSystemStorage", provider, pass_id)
    /\ call' = StorageCall("delete_pass", "FileSystemStorage", provider, pass_id)
    /\ UNCHANGED <<mem_passes, store, now, material, tmpfs, pc, locals>>

StorageNext ==
    \/ \E provider \in Providers, pass_id \in StorageIds, pass_data \in StorageDocs :
         MemoryStore(provider, pass_id, pass_data)
    \/ \E provider \in Providers, pass_id \in StorageIds :
         MemoryDelete(provider, pass_id)
    \/ \E provider \in Providers, pass_id \in StorageIds, pass_data \in StorageDocs :
         FileSystemStore(provider, pass_id, pass_data)
    \/ \E provider \in Providers, pass_id \in StorageIds :
         FileSystemDelete(provider, pass_id)

StorageSpec == Init /\ [][StorageNext]_vars

(***************************************************************************)
(* PassManager: one call fanned out to the providers of the platforms that *)
(* were asked for, are configured and fit the template's pass type. The    *)
(* Google and Samsung providers are collaborators behind the provider      *)
(* interface: a call of theirs returns or raises. The Apple provider       *)
(* writes the pass store as CreatePass, UpdatePass and VoidPass do.        *)
(***************************************************************************)
Platforms == {"apple", "google", "samsung"}

\* the order in which every manager method tries the platforms
PlatformRank == [apple |-> 1, google |-> 2, samsung |-> 3]

\* create_for / update_for / void_for / platforms: None means all three
PlatformLists ==
    {None, [list |-> <<"apple">>], [list |-> <<"apple", "google">>],
     [list |-> <<"google", "samsung">>]}

RequestedPlatforms(platform_list) ==
    IF platform_list = None THEN Platforms ELSE SeqRange(platform_list.list)

\* the providers a manager holds: self.apple_pass, self.google_pass, ...
Managers == [Platforms -> BOOLEAN]

\* pass_type.name.startswith("APPLE_" / "GOOGLE_" / "SAMSUNG_")
IsPlatformPassType(platform, pass_type) ==
    CASE platform = "apple"   -> pass_type \in ApplePassTypes
      [] platform = "google"  -> pass_type = "GOOGLE_OFFER"
      [] platform = "samsung" -> pass_type = "SAMSUNG_COUPON"

ManagerTemplates ==
    {[EventTemplate EXCEPT !.pass_type = pass_type] :
        pass_type \in {"APPLE_EVENTTICKET"} \cup OtherPassTypes}

ManagerPassData ==
    [serial_number |-> "s1", customer_id |-> "cust-1", voided |-> FALSE,
     expiration_date |-> None, relevant_date |-> None,
     barcode_message |-> "", barcode_alt_text |-> "",
     field_values |-> EmptyDict]

\* a store that holds the pass ManagerPassData describes
ManagerStore ==
    StorePassData(EmptyDict, PassIdOf(ManagerPassData.serial_number),
                  GeneratePassJson(ManagerPassData, EventTemplate, 0), "utf-8")

\* the platforms whose branch of the method is entered
Compatible(manager, platform_list, template) ==
    {platform \in Platforms :
        /\ platform \in RequestedPlatforms(platform_list)
        /\ manager[platform]
        /\ IsPlatformPassType(platform, template.pass_type)}

\* the providers whose call raises: those hit by a fault of their I/O, and
\* the Apple provider when update_pass, void_pass or generate_pass_file is
\* given a pass that is not stored
Raising(method, s, pass_id, faults) ==
    faults \cup (IF method # "create_pass" /\ ~PassExists(s, pass_id)
                 THEN {"apple"} ELSE {})

ProviderError(method, platform) ==
    [kind |-> IF platform = "apple" /\ method \in {"create_pass", "update_pass"}
              THEN "PassCreationError"
              ELSE IF platform = "apple" THEN "AppleWalletError" ELSE "Exception",
     message |-> platform \o "." \o method \o " failed"]

NoPlatforms(method) ==
    [kind |-> "PassCreationError",
     message |-> method \o ": No compatible pass platforms available"]

\* what a manager call leaves behind: the dict it returns or the exception
\* it raises, the providers it called and the failures it logged
ManagerResult(ok, value, attempted, logged) ==
    [ok |-> ok, attempted |-> attempted, logged |-> logged]
       @@ (IF ok THEN [value |-> value] ELSE [error |-> value])

\* update_pass, void_pass, generate_pass_files: every provider call sits in
\* try / except Exception: logger.error(...)
CaughtFanOut(method, compatible, raising, pass_id) ==
    LET produced == compatible \ raising
    IN  IF produced = {}
        THEN ManagerResult(FALSE, NoPlatforms(method), compatible,
                           compatible \cap raising)
        ELSE ManagerResult(TRUE,
                           [platform \in produced |-> [platform |-> platform, id |-> pass_id]],
                           compatible, compatible \cap raising)

\* create_pass: the provider calls are not wrapped; the first exception
\* leaves the method
UncaughtFanOut(method, compatible, raising, pass_id) ==
    LET failed == compatible \cap raising
        first == CHOOSE platform \in failed :
                    \A other \in failed : PlatformRank[platform] <= PlatformRank[other]
    IN  IF failed # {}
        THEN ManagerResult(FALSE, ProviderError(method, first),
                           {platform \in compatible :
                               PlatformRank[platform] <= PlatformRank[first]}, {})
        ELSE IF compatible = {}
        THEN ManagerResult(FALSE, NoPlatforms(method), {}, {})
        ELSE ManagerResult(TRUE,
                           [platform \in compatible |-> [platform |-> platform, id |-> pass_id]],
                           compatible, {})

ManagerCall(method, manager, platform_list, template, pass_id, faults) ==
    [op |-> "PassManager." \o method, method |-> method, manager |-> manager,
     platforms |-> platform_list, template |-> template, pass_id |-> pass_id,
     faults |-> faults]

\* the Apple provider's call went through
AppleDone(res) == res.ok /\ "apple" \in DOMAIN res.value

ManagerCreatePass(manager, platform_list, template, faults) ==
    LET pass_id == PassIdOf(ManagerPassData.serial_number)
        res == UncaughtFanOut("create_pass",
                              Compatible(manager, platform_list, template),
                              Raising("create_pass", store, pass_id, faults), pass_id)
    IN  /\ Quiescent
        /\ now < MaxTime
        /\ call' = ManagerCall("create_pass", manager, platform_list, template,
                               pass_id, faults)
        /\ outcome' = res
        /\ IF AppleDone(res)
           THEN \E codec \in LocaleEncodings :
                   store' = StorePassData(store, pass_id,
                                GeneratePassJson(ManagerPassData, template, now), codec)
           ELSE UNCHANGED store
        /\ now' = now + 1
        /\ UNCHANGED <<material, backends, tmpfs, pc, locals>>

ManagerUpdatePass(manager, pass_id, platform_list, template, faults) ==
    LET res == CaughtFanOut("update_pass",
                            Compatible(manager, platform_list, template),
                            Raising("update_pass", store, pass_id, faults), pass_id)
    IN  /\ Quiescent
        /\ now < MaxTime
        /\ call' = ManagerCall("update_pass", manager, platform_list, template,
                               pass_id, faults)
        /\ outcome' = res
        /\ IF AppleDone(res)
           THEN \E codec \in LocaleEncodings :
                   store' = StorePassData(store, pass_id,
                                GeneratePassJson(ManagerPassData, template, now), codec)
           ELSE UNCHANGED store
        /\ now' = now + 1
        /\ UNCHANGED <<material, backends, tmpfs, pc, locals>>

ManagerVoidPass(manager, pass_id, platform_list, template, faults) ==
    LET res == CaughtFanOut("void_pass",
                            Compatible(manager, platform_list, template),
                            Raising("void_pass", store, pass_id, faults), pass_id)
    IN  /\ Quiescent
        /\ now < MaxTime
        /\ call' = ManagerCall("void_pass", manager, platform_list, template,
                               pass_id, faults)
        /\ outcome' = res
        /\ IF AppleDone(res)
           THEN \E codec \in LocaleEncodings :
                   store' = StorePassData(store, pass_id,
                                VoidedDocument(RetrievePassData(store, pass_id)),
                                codec)
           ELSE UNCHANGED store
        /\ now' = now + 1
        /\ UNCHANGED <<material, backends, tmpfs, pc, locals>>

\* generate_pass_file leaves the store and, once finished, the temporary
\* directory as they were
ManagerGeneratePassFiles(manager, pass_id, platform_list, template, faults) ==
    /\ Quiescent
    /\ now < MaxTime
    /\ call' = ManagerCall("generate_pass_files", manager, platform_list, template,
                           pass_id, faults)
    /\ outcome' = CaughtFanOut("generate_pass_files",
                               Compatible(manager, platform_list, template),
                               Raising("generate_pass_files", store, pass_id, faults),
                               pass_id)
    /\ now' = now + 1
    /\ UNCHANGED <<store, material, backends, tmpfs, pc, locals>>

ManagerNext ==
    \E manager \in Managers, platform_list \in PlatformLists,
       template \in ManagerTemplates,
       faults \in {{}, {"apple"}, {"google"}, Platforms} :
        \/ ManagerCreatePass(manager, platform_list, template, faults)
        \/ \E pass_id \in PassIds :
              \/ ManagerUpdatePass(manager, pass_id, platform_list, template, faults)
              \/ ManagerVoidPass(manager, pass_id, platform_list, template, faults)
              \/ ManagerGeneratePassFiles(manager, pass_id, platform_list, template,
                                          faults)

\* one manager call, on an empty store or on one that holds passes
ManagerInit ==
    /\ store \in {EmptyDict, ManagerStore}
    /\ now = MaxTime - 1
    /\ certificate = "cert.pem"
    /\ private_key = "key.pem"
    /\ wwdr_certificate = "wwdr.pem"
    /\ tmpfs = EmptyDict
    /\ pc = [c \in Calls |-> "Idle"]
    /\ arg_pass_id = [c \in Calls |-> ""]
    /\ pass_json = [c \in Calls |-> None]
    /\ temp_dir = [c \in Calls |-> ""]
    /\ manifest = [c \in Calls |-> None]
    /\ signature = [c \in Calls |-> None]
    /\ buffer = [c \in Calls |-> <<>>]
    /\ result = [c \in Calls |-> None]
    /\ raised = [c \in Calls |-> None]
    /\ error = [c \in Calls |-> None]
    /\ call = ConstructorCall
    /\ outcome = [ok |-> TRUE, value |-> "ApplePass"]
    /\ mem_passes = EmptyDict
    /\ fs_storage = EmptyDict
    /\ latest = NothingStored

ManagerSpec == ManagerInit /\ [][ManagerNext]_vars

(***************************************************************************)
(* void_pass and update_pass called at the same time for one pass, by two  *)
(* threads that share the provider and its pass files. Neither method      *)
(* takes a lock: each is a sequence of file reads and one file write, and  *)
(* the write, open(pass_path, 'w') followed by json.dump and close, first  *)
(* truncates the file and fills it later.                                  *)
(***************************************************************************)
VoidCall == "call1"
UpdateCall == "call2"

\* the pass file between open(pass_path, 'w') and the flush at close
EmptyFile == [text |-> [truncated |-> TRUE], codec |-> "ascii"]

\* json.load raises JSONDecodeError on a file that holds no document
IsComplete(file) == "json" \in DOMAIN file.text

\* what _retrieve_pass_data raises on the file as it is now, if anything
ReadError(st, pass_id) ==
    IF ~PassExists(st, pass_id) THEN PassNotFound(pass_id)
    ELSE IF ~IsComplete(st[pass_id])
    THEN [kind |-> "JSONDecodeError", message |-> "Expecting value"]
    ELSE None

RaceFail(c, kind, prefix, e) ==
    /\ pc' = [pc EXCEPT ![c] = "Failed"]
    /\ raised' = [raised EXCEPT ![c] = e]
    /\ error' = [error EXCEPT ![c] = [kind |-> kind, message |-> prefix \o e.message]]

\* line 188: existing_pass = self.get_pass(pass_id)
RaceVoidGetPass(c, pass_id) ==
    /\ pc[c] = "Idle"
    /\ arg_pass_id' = [arg_pass_id EXCEPT ![c] = pass_id]
    /\ IF ReadError(store, pass_id) # None
       THEN /\ RaceFail(c, "AppleWalletError", "Failed to void Apple pass: ",
                        ReadError(store, pass_id))
            /\ UNCHANGED result
       ELSE /\ result' = [result EXCEPT ![c] = GetPass(store, pass_id).value]
            /\ pc' = [pc EXCEPT ![c] = "VoidGot"]
            /\ UNCHANGED <<raised, error>>
    /\ UNCHANGED <<store, now, material, api, backends, tmpfs, pass_json, temp_dir,
                   manifest, signature, buffer>>

\* lines 191-194: pass_json = self._retrieve_pass_data(pass_id), then
\* pass_json['voided'] = True
RaceVoidRetrieve(c) ==
    /\ pc[c] = "VoidGot"
    /\ IF ReadError(store, arg_pass_id[c]) # None
       THEN /\ RaceFail(c, "AppleWalletError", "Failed to void Apple pass: ",
                        ReadError(store, arg_pass_id[c]))
            /\ UNCHANGED pass_json
       ELSE /\ pass_json' = [pass_json EXCEPT ![c] =
                                VoidedDocument(RetrievePassData(store, arg_pass_id[c]))]
            /\ pc' = [pc EXCEPT ![c] = "VoidLoaded"]
            /\ UNCHANGED <<raised, error>>
    /\ UNCHANGED <<store, now, material, api, backends, tmpfs, arg_pass_id, temp_dir,
                   manifest, signature, buffer, result>>

\* line 474: open(pass_path, 'w') truncates the file
OpenForWriting(st, pass_id) == (pass_id :> EmptyFile) @@ st

RaceVoidOpen(c) ==
    /\ pc[c] = "VoidLoaded"
    /\ store' = OpenForWriting(store, arg_pass_id[c])
    /\ pc' = [pc EXCEPT ![c] = "VoidOpened"]
    /\ UNCHANGED <<now, material, api, backends, tmpfs, locals>>

\* lines 475, 197-203: json.dump(pass_json, f) and close; void_pass returns
\* existing_pass with voided and updated_at set
RaceVoidWrite(c) ==
    /\ pc[c] = "VoidOpened"
    /\ \E codec \in LocaleEncodings :
         store' = StorePassData(store, arg_pass_id[c], pass_json[c], codec)
    /\ result' = [result EXCEPT ![c] = [@ EXCEPT !.voided = TRUE, !.updated_at = now]]
    /\ pc' = [pc EXCEPT ![c] = "Done"]
    /\ UNCHANGED <<now, material, api, backends, tmpfs, arg_pass_id, pass_json,
                   temp_dir, manifest, signature, buffer, raised, error>>

\* line 128: existing_pass = self.get_pass(pass_id)
RaceUpdateGetPass(c, pass_id) ==
    /\ pc[c] = "Idle"
    /\ arg_pass_id' = [arg_pass_id EXCEPT ![c] = pass_id]
    /\ IF ReadError(store, pass_id) # None
       THEN /\ RaceFail(c, "PassCreationError", "Failed to update Apple pass: ",
                        ReadError(store, pass_id))
            /\ UNCHANGED result
       ELSE /\ result' = [result EXCEPT ![c] = GetPass(store, pass_id).value]
            /\ pc' = [pc EXCEPT ![c] = "UpdateGot"]
            /\ UNCHANGED <<raised, error>>
    /\ UNCHANGED <<store, now, material, api, backends, tmpfs, pass_json, temp_dir,
                   manifest, signature, buffer>>

\* line 131: pass_json = self._generate_pass_json(pass_data, template)
RaceUpdateGenerate(c, pass_data, template) ==
    /\ pc[c] = "UpdateGot"
    /\ now < MaxTime
    /\ call' = [op |-> "update_pass", pass_id |-> arg_pass_id[c],
                pass_data |-> pass_data, template |-> template]
    /\ pass_json' = [pass_json EXCEPT ![c] =
                        UpdatedDocument(None, pass_data, template, now)]
    /\ pc' = [pc EXCEPT ![c] = "UpdateGenerated"]
    /\ now' = now + 1
    /\ UNCHANGED <<store, outcome, material, backends, tmpfs, arg_pass_id, temp_dir,
                   manifest, signature, buffer, result, raised, error>>

RaceUpdateOpen(c) ==
    /\ pc[c] = "UpdateGenerated"
    /\ store' = OpenForWriting(store, arg_pass_id[c])
    /\ pc' = [pc EXCEPT ![c] = "UpdateOpened"]
    /\ UNCHANGED <<now, material, api, backends, tmpfs, locals>>

\* lines 475, 137-151: json.dump(pass_json, f) and close; update_pass
\* returns a response built from the call and from existing_pass
RaceUpdateWrite(c) ==
    /\ pc[c] = "UpdateOpened"
    /\ \E codec \in LocaleEncodings :
         store' = StorePassData(store, arg_pass_id[c], pass_json[c], codec)
    /\ result' = [result EXCEPT ![c] =
                     PassResponse(arg_pass_id[c], call.pass_data, call.template,
                                  @.authentication_token, @.created_at, now)]
    /\ pc' = [pc EXCEPT ![c] = "Done"]
    /\ UNCHANGED <<now, material, api, backends, tmpfs, arg_pass_id, pass_json,
                   temp_dir, manifest, signature, buffer, raised, error>>

RaceNext ==
    \/ \E pass_id \in PassIds : RaceVoidGetPass(VoidCall, pass_id)
    \/ RaceVoidRetrieve(VoidCall)
    \/ RaceVoidOpen(VoidCall)
    \/ RaceVoidWrite(VoidCall)
    \/ \E pass_id \in PassIds : RaceUpdateGetPass(UpdateCall, pass_id)
    \/ \E pass_data \in PassDatas, template \in Templates :
         RaceUpdateGenerate(UpdateCall, pass_data, template)
    \/ RaceUpdateOpen(UpdateCall)
    \/ RaceUpdateWrite(UpdateCall)

\* one pass, created at time 0 and not voided; both calls yet to start
RaceInit ==
    /\ store = ManagerStore
    /\ now = 1
    /\ certificate = "cert.pem"
    /\ private_key = "key.pem"
    /\ wwdr_certificate = "wwdr.pem"
    /\ tmpfs = EmptyDict
    /\ pc = [c \in Calls |-> "Idle"]
    /\ arg_pass_id = [c \in Calls |-> ""]
    /\ pass_json = [c \in Calls |-> None]
    /\ temp_dir = [c \in Calls |-> ""]
    /\ manifest = [c \in Calls |-> None]
    /\ signature = [c \in Calls |-> None]
    /\ buffer = [c \in Calls |-> <<>>]
    /\ result = [c \in Calls |-> None]
    /\ raised = [c \in Calls |-> None]
    /\ error = [c \in Calls |-> None]
    /\ call = ConstructorCall
    /\ outcome = [ok |-> TRUE, value |-> "ApplePass"]
    /\ mem_passes = EmptyDict
    /\ fs_storage = EmptyDict
    /\ latest = NothingStored

RaceSpec == RaceInit /\ [][RaceNext]_vars

(***************************************************************************)
(* Reading a pass document: its regions and the fields they show.          *)
(***************************************************************************)
Regions ==
    {[attr |-> "header_fields", name |-> "headerFields"],
     [attr |-> "primary_fields", name |-> "primaryFields"],
     [attr |-> "secondary_fields", name |-> "secondaryFields"],
     [attr |-> "auxiliary_fields", name |-> "auxiliaryFields"],
     [attr |-> "back_fields", name |-> "backFields"]}
RegionNames == {r.name : r \in Regions}


\* the array a document holds for a region under a pass-style key (empty
\* when the region has no key there)
RegionArray(doc, style_key, region_name) ==
    IF style_key \in DOMAIN doc /\ region_name \in DOMAIN doc[style_key]
    THEN doc[style_key][region_name] ELSE <<>>

\* the keys of a document that are not a pass-style sub-key
TopLevelKeys ==
    {"formatVersion", "passTypeIdentifier", "serialNumber", "teamIdentifier",
     "organizationName", "templateId", "customerId", "organizationId", "createdAt",
     "updatedAt", "description", "logoText", "backgroundColor", "foregroundColor",
     "labelColor", "expirationDate", "relevantDate", "voided", "barcodes", "barcode",
     "authenticationToken", "webServiceURL", "locations", "nfc"}
StyleSubKeys(doc) == DOMAIN doc \ TopLevelKeys

\* the field entries a document shows, in any region
ShownFields(doc) ==
    UNION {{RegionArray(doc, sk, rn)[i] : i \in DOMAIN RegionArray(doc, sk, rn)} :
           <<sk, rn>> \in StyleSubKeys(doc) \X RegionNames}

TemplateFields(template) ==
    UNION {{template.structure[r.attr][i] : i \in DOMAIN template.structure[r.attr]} :
           r \in Regions}

(***************************************************************************)
(* C11: when create_pass was the last storing call, made with a template   *)
(* that has a field with key k and with field_values[k] = v, the archive a  *)
(* following generate_pass_file returns for that pass holds a pass.json     *)
(* that shows a field with key k, every field with key k it shows has       *)
(* value v, and the archive's manifest.json maps "pass.json" to the SHA-1   *)
(* digest of the pass.json bytes in the same archive.                       *)
(***************************************************************************)
C11_CreatedThenGenerated(c) ==
    /\ pc[c] = "Done"
    /\ call.op = "create_pass"
    /\ outcome.ok
    /\ arg_pass_id[c] = PassIdOf(call.pass_data.serial_number)

C11_RoundTrip ==
    \A c \in Calls : C11_CreatedThenGenerated(c) =>
        LET zip == result[c].zip
            doc == JsonLoad(ArchiveFile(zip, "pass.json"))
            m == JsonLoad(ArchiveFile(zip, "manifest.json"))
            overridden == {f \in TemplateFields(call.template) :
                              f.key \in DOMAIN call.pass_data.field_values}
        IN  /\ \A f \in overridden :
                 /\ \E e \in ShownFields(doc) : e.key = f.key
                 /\ \A e \in ShownFields(doc) :
                      e.key = f.key => e.value = call.pass_data.field_values[f.key]
            /\ "pass.json" \in DOMAIN m
            /\ m["pass.json"] = Sha1Hex(ArchiveFile(zip, "pass.json"))

C11_Witness ==
    /\ C11_CreatedThenGenerated(MainCall)
    /\ call.template = EventTemplate
    /\ call.pass_data.field_values = [event_name |-> "Sold Out Gig"]
    /\ \E e \in ShownFields(JsonLoad(ArchiveFile(result[MainCall].zip, "pass.json"))) :
          e.key = "event_name" /\ e.value = "Sold Out Gig"

(***************************************************************************)
(* The document create_pass generated and stored, when it returned.        *)
(***************************************************************************)
Created == call.op = "create_pass" /\ outcome.ok
CreatedDoc == RetrievePassData(store, PassIdOf(call.pass_data.serial_number))

\* what the claims expect a field to show: the instance's value for the
\* field's key when it has one, the template's default otherwise
ExpectedValue(f, field_values) ==
    IF f.key \in DOMAIN field_values THEN field_values[f.key] ELSE f.value

(***************************************************************************)
(* C12: the document create_pass generates holds, for every region of the  *)
(* template that has fields, an array with one entry per template field,   *)
(* in template order, each with the field's key and with the instance's    *)
(* field_values entry for that key as its value when there is one and the  *)
(* template default otherwise; the document shows no field whose key is    *)
(* not a template field's key, and the style sub-key holds nothing but     *)
(* region arrays, so an override that matches no field adds nothing.       *)
(***************************************************************************)
C12_FieldsResolved ==
    Created =>
        LET doc == CreatedDoc
            fv == call.pass_data.field_values
        IN  /\ \A sk \in StyleSubKeys(doc) : DOMAIN doc[sk] \subseteq RegionNames
            /\ \A r \in Regions :
                 LET fields == call.template.structure[r.attr]
                 IN  \E sk \in StyleSubKeys(doc) :
                        LET arr == RegionArray(doc, sk, r.name)
                        IN  /\ Len(arr) = Len(fields)
                            /\ \A i \in DOMAIN fields :
                                 /\ arr[i].key = fields[i].key
                                 /\ arr[i].value = ExpectedValue(fields[i], fv)
            /\ \A e \in ShownFields(doc) :
                 \E f \in TemplateFields(call.template) : f.key = e.key
            /\ DOMAIN doc \cap DOMAIN fv = {}

C12_Witness ==
    /\ Created
    /\ call.pass_data.field_values = [event_name |-> "Sold Out Gig", seat |-> "12A"]
    /\ Len(call.template.structure.header_fields) = 2
    /\ call.template.structure.header_fields[1].key = "event_date"
    /\ LET arr == RegionArray(CreatedDoc, "eventticket", "headerFields")
       IN  /\ Len(arr) = 2
           /\ arr[1].key = "event_date" /\ arr[1].value = ""
           /\ arr[2].key = "event_name" /\ arr[2].value = "Sold Out Gig"

(***************************************************************************)
(* C13: in the document create_pass generates, a template field that has   *)
(* no entry in field_values and an empty template default is omitted: the  *)
(* document shows no field with its key, and no field the document shows   *)
(* has an empty value.                                                     *)
(***************************************************************************)
C13_UnresolvedFieldOmitted ==
    Created =>
        /\ \A f \in TemplateFields(call.template) :
             f.key \notin DOMAIN call.pass_data.field_values /\ f.value = ""
                => \A e \in ShownFields(CreatedDoc) : e.key # f.key
        /\ \A e \in ShownFields(CreatedDoc) : e.value # ""

(***************************************************************************)
(* C14: in the document create_pass generates, each visual style attribute *)
(* (backgroundColor, foregroundColor, labelColor, logoText) is a key of    *)
(* the document exactly when the template's style gives it a non-empty     *)
(* value, and then holds that value.                                       *)
(***************************************************************************)
StyleAttributes ==
    {[attr |-> "background_color", name |-> "backgroundColor"],
     [attr |-> "foreground_color", name |-> "foregroundColor"],
     [attr |-> "label_color", name |-> "labelColor"],
     [attr |-> "logo_text", name |-> "logoText"]}

C14_StyleOnlyWhenSet ==
    Created =>
        \A a \in StyleAttributes :
            /\ a.name \in DOMAIN CreatedDoc <=> call.template.style[a.attr] # ""
            /\ a.name \in DOMAIN CreatedDoc =>
                  CreatedDoc[a.name] = call.template.style[a.attr]

(***************************************************************************)
(* C15: the document create_pass generates has exactly one pass-style      *)
(* sub-key, which is the template's pass-type variant with its platform    *)
(* prefix removed and the rest in lower case; every region array is under  *)
(* that sub-key and under no other key of the document.                    *)
(***************************************************************************)
\* a pass-type variant without its platform prefix, in lower case
StrippedLower(variant) ==
    CASE variant = "APPLE_GENERIC" -> "generic"
      [] variant = "APPLE_EVENTTICKET" -> "eventticket"
      [] variant = "APPLE_COUPON" -> "coupon"
      [] variant = "APPLE_STORECARD" -> "storecard"
      [] variant = "APPLE_BOARDINGPASS" -> "boardingpass"
      [] variant = "GOOGLE_OFFER" -> "offer"
      [] variant = "SAMSUNG_COUPON" -> "coupon"

RegionsOnlyUnder(doc, style_key) ==
    /\ DOMAIN doc \cap RegionNames = {}
    /\ DOMAIN doc[style_key] \subseteq RegionNames
    /\ \A r \in Regions :
         call.template.structure[r.attr] # <<>> => r.name \in DOMAIN doc[style_key]

C15_ExpectedKey(variant) ==
    IF variant \in ApplePassTypes THEN StrippedLower(variant) ELSE variant

LacksRequiredField(template) ==
    template.id = "" \/ template.organization_id = "" \/ template.pass_type = NoPassType

C16_MissingFieldRejected ==
    call.op = "create_pass" /\ LacksRequiredField(call.template) =>
        /\ ~outcome.ok
        /\ outcome.error.kind = "ValidationError"
        /\ ~PassExists(store, PassIdOf(call.pass_data.serial_number))
        /\ tmpfs = EmptyDict

(***************************************************************************)
(* Provider construction: the fields of a configuration that are unset or  *)
(* invalid, and the fields an error names.                                 *)
(***************************************************************************)
UnsetFields(config) == {f \in SeqRange(required_fields) : config[f] = ""}
AbsentFiles(config, disk) ==
    {f \in SeqRange(path_fields) : config[f] # "" /\ config[f] \notin DOMAIN disk}
UnparsableFiles(config, disk) ==
    {f \in SeqRange(path_fields) :
        config[f] # "" /\ config[f] \in DOMAIN disk /\ disk[config[f]] = Garbage}
BadFields(config, disk) ==
    UnsetFields(config) \cup AbsentFiles(config, disk) \cup UnparsableFiles(config, disk)

RoleOf(f) ==
    CASE f = "apple_certificate_path" -> "Apple certificate"
      [] f = "apple_private_key_path" -> "Apple private key"
      [] f = "apple_wwdr_certificate_path" -> "Apple WWDR certificate"
      [] OTHER -> "no role"

\* the required fields an error's message identifies: by the field's name,
\* by the path it holds, or by the role of the file it leads to
NamedFields(err, config) ==
    {f \in SeqRange(required_fields) :
        \/ f \in SeqRange(err.names)
        \/ config[f] # "" /\ config[f] \in SeqRange(err.names)
        \/ RoleOf(f) \in SeqRange(err.names)}

\* the first of the path fields, in the order of the code, that is in S
FirstPathField(S) ==
    path_fields[CHOOSE i \in DOMAIN path_fields :
                    /\ path_fields[i] \in S
                    /\ \A j \in 1..(i - 1) : path_fields[j] \notin S]

Constructed == call.op = "__init__"
MaterialLoaded ==
    /\ certificate = call.disk[call.config.apple_certificate_path]
    /\ private_key = call.disk[call.config.apple_private_key_path]
    /\ wwdr_certificate = call.disk[call.config.apple_wwdr_certificate_path]
    /\ NotLoaded \notin {certificate, private_key, wwdr_certificate}

(***************************************************************************)
(* C17: when a required field of the configuration is unset, or a          *)
(* certificate or key file does not exist or does not parse, construction  *)
(* raises CertificateError and the error names every such field; a         *)
(* provider is returned only with all its signing material loaded.         *)
(***************************************************************************)
C17_NamesEveryBadField ==
    Constructed =>
        /\ BadFields(call.config, call.disk) # {} =>
              /\ ~outcome.ok
              /\ outcome.error.kind = "CertificateError"
              /\ NamedFields(outcome.error, call.config)
                    = BadFields(call.config, call.disk)
        /\ outcome.ok => MaterialLoaded

(***************************************************************************)
(* C17, amended: construction returns a provider exactly when no required  *)
(* field is unset and the three files exist and parse, and then all three  *)
(* objects are loaded. Otherwise it raises CertificateError: with unset    *)
(* fields the error names every unset field and nothing else; with all     *)
(* fields set it names only the first path (certificate, key, WWDR) that   *)
(* does not exist; with all files present it names only the first of the   *)
(* three that does not parse.                                              *)
(***************************************************************************)
C17_FailsFast ==
    Constructed =>
        LET config == call.config
            disk == call.disk
        IN  /\ outcome.ok <=> BadFields(config, disk) = {}
            /\ outcome.ok => MaterialLoaded
            /\ ~outcome.ok =>
                 /\ outcome.error.kind = "CertificateError"
                 /\ NamedFields(outcome.error, config) =
                      IF UnsetFields(config) # {} THEN UnsetFields(config)
                      ELSE IF AbsentFiles(config, disk) # {}
                      THEN {FirstPathField(AbsentFiles(config, disk))}
                      ELSE {FirstPathField(UnparsableFiles(config, disk))}

C17_Witness ==
    /\ Constructed
    /\ Cardinality(UnsetFields(call.config)) >= 2
    /\ ~outcome.ok
    /\ NamedFields(outcome.error, call.config) = UnsetFields(call.config)
    /\ AbsentFiles(call.config, call.disk) # {}

(***************************************************************************)
(* The storage backends as their callers see them.                         *)
(***************************************************************************)
RetrievePass(backend, provider, pass_id) ==
    IF backend = "MemoryStorage" THEN MemRetrievePass(mem_passes, provider, pass_id)
    ELSE FsRetrievePass(fs_storage, provider, pass_id)

ListPasses(backend, provider) ==
    IF backend = "MemoryStorage" THEN MemListPasses(mem_passes, provider)
    ELSE FsListPasses(fs_storage, provider)

NotFoundKind(backend) ==
    IF backend = "MemoryStorage" THEN "KeyError" ELSE "FileNotFoundError"

\* the ids a backend holds for a provider: stored, and not deleted since
HeldIds(backend, provider) ==
    {pass_id \in StorageIds : <<provider, pass_id>> \in DOMAIN latest[backend]}

(***************************************************************************)
(* C19: for MemoryStorage and for FileSystemStorage, after any sequence of *)
(* store_pass and delete_pass calls, retrieve_pass(provider, pass_id)      *)
(* returns the data of the most recent store_pass for that provider and id *)
(* when no delete_pass followed it, and otherwise (never stored, or        *)
(* deleted since) raises KeyError (memory) or FileNotFoundError (file      *)
(* system).                                                                *)
(***************************************************************************)
C19_RetrieveLatest ==
    \A backend \in Backends, provider \in Providers, pass_id \in StorageIds :
        LET got == RetrievePass(backend, provider, pass_id)
        IN  IF <<provider, pass_id>> \in DOMAIN latest[backend]
            THEN got = Returned(latest[backend][<<provider, pass_id>>])
            ELSE ~got.ok /\ got.error.kind = NotFoundKind(backend)

C19_Witness ==
    /\ call.op = "delete_pass" /\ call.backend = "FileSystemStorage"
    /\ call.provider = "google" /\ call.pass_id = "test-123"
    /\ outcome = Returned(TRUE)
    /\ ~FsRetrievePass(fs_storage, "google", "test-123").ok
    /\ FsRetrievePass(fs_storage, "apple", "test-123")
          = Returned([id |-> "test-123", value |-> "new-value"])
    /\ FsRetrievePass(fs_storage, "google", "test-456")
          = Returned([id |-> "test-123", value |-> "test-value"])

(***************************************************************************)
(* C20: for both backends, after any sequence of store_pass and            *)
(* delete_pass calls, list_passes(provider) returns the ids currently held *)
(* for that provider, each exactly once and no other, and the empty list   *)
(* for a provider that holds no pass or was never used.                    *)
(***************************************************************************)
C20_ListExact ==
    \A backend \in Backends, provider \in Providers :
        \A listed \in ListPasses(backend, provider) :
            /\ SeqRange(listed) = HeldIds(backend, provider)
            /\ Len(listed) = Cardinality(HeldIds(backend, provider))
            /\ HeldIds(backend, provider) = {} => listed = <<>>

C20_Witness ==
    /\ call.op = "delete_pass" /\ call.backend = "MemoryStorage"
    /\ outcome = Returned(TRUE)
    /\ "google" \in DOMAIN mem_passes
    /\ MemListPasses(mem_passes, "google") = {<<>>}
    /\ <<"test-123", "test-456">> \in MemListPasses(mem_passes, "apple")

(***************************************************************************)
(* C21: a call delete_pass(provider, id), on either backend, returns True  *)
(* exactly when the pass is held at the time of the call; it then removes  *)
(* the pass, so that retrieve_pass raises the backend's not-found error    *)
(* and no list list_passes returns has the id. When the pass is not held   *)
(* it returns False, raises nothing and leaves the backend's state as it   *)
(* is (a second delete of the same id therefore returns False).            *)
(***************************************************************************)
C21_IsDelete(backend, provider, pass_id) ==
    call' = StorageCall("delete_pass", backend, provider, pass_id)

C21_DeleteStep ==
    \A backend \in Backends, provider \in Providers, pass_id \in StorageIds :
        C21_IsDelete(backend, provider, pass_id) =>
            IF pass_id \in HeldIds(backend, provider)
            THEN /\ outcome' = Returned(TRUE)
                 /\ ~RetrievePass(backend, provider, pass_id)'.ok
                 /\ RetrievePass(backend, provider, pass_id)'.error.kind
                       = NotFoundKind(backend)
                 /\ \A listed \in ListPasses(backend, provider)' :
                       pass_id \notin SeqRange(listed)
                 /\ pass_id \notin HeldIds(backend, provider)'
            ELSE /\ outcome' = Returned(FALSE)
                 /\ mem_passes' = mem_passes
                 /\ fs_storage' = fs_storage
                 /\ HeldIds(backend, provider)' = HeldIds(backend, provider)

C21_DeleteReturn == [][C21_DeleteStep]_vars

\* a second delete: the directory exists, the file is gone, False is returned
C21_Witness ==
    /\ call.op = "delete_pass" /\ call.backend = "FileSystemStorage"
    /\ outcome = Returned(FALSE)
    /\ ProviderDir(call.provider) \in DOMAIN fs_storage
    /\ ~FsExists(fs_storage, call.provider, call.pass_id)
    /\ HeldIds("FileSystemStorage", call.provider) = {}

(***************************************************************************)
(* C22: a store_pass or delete_pass call for one provider, on either       *)
(* backend, changes nothing that retrieve_pass or list_passes returns for  *)
(* any other provider, also for a pass id held under both providers.       *)
(***************************************************************************)
C22_IsCallFor(backend, provider) ==
    /\ call'.op \in {"store_pass", "delete_pass"}
    /\ call'.backend = backend
    /\ call'.provider = provider

C22_ScopedStep ==
    \A backend \in Backends, provider \in Providers :
        C22_IsCallFor(backend, provider) =>
            \A other \in Providers \ {provider} :
                /\ ListPasses(backend, other)' = ListPasses(backend, other)
                /\ \A pass_id \in StorageIds :
                     RetrievePass(backend, other, pass_id)'
                        = RetrievePass(backend, other, pass_id)

C22_ProviderScoped == [][C22_ScopedStep]_vars

\* the same id under both providers, with different data, after a store
C22_Witness ==
    /\ call = StorageCall("store_pass", "MemoryStorage", "google", "test-123")
    /\ MemRetrievePass(mem_passes, "google", "test-123")
          = Returned([id |-> "test-123", value |-> "new-value"])
    /\ MemRetrievePass(mem_passes, "apple", "test-123")
          = Returned([id |-> "test-123", value |-> "test-value"])

(***************************************************************************)
(* C23: over any sequence of create_pass calls on one provider, no two     *)
(* passes end up under one pass id: a create_pass never replaces the       *)
(* stored document of a pass that exists already.                          *)
(***************************************************************************)
C23_IsCreate == call'.op = "create_pass" /\ now' # now

C23_CreateStep ==
    C23_IsCreate => \A pass_id \in DOMAIN store :
                        pass_id \in DOMAIN store' /\ store'[pass_id] = store[pass_id]

C23_CreateNeverReplaces == [][C23_CreateStep]_vars

(***************************************************************************)
(* C24: in each of the manager's create_pass, update_pass, void_pass and   *)
(* generate_pass_files a provider's failure is caught and logged, not      *)
(* propagated: every compatible platform is attempted, the result holds    *)
(* exactly the platforms that did not fail, and the manager raises its own *)
(* PassCreationError only when no platform produced a result.              *)
(***************************************************************************)
C24_IsManagerStep == "method" \in DOMAIN call' /\ now' # now

C24_Contained(method, manager, platform_list, template, pass_id, faults) ==
    LET compatible == Compatible(manager, platform_list, template)
        failed == compatible \cap Raising(method, store, pass_id, faults)
    IN  /\ outcome'.attempted = compatible
        /\ outcome'.logged = failed
        /\ outcome'.ok <=> compatible \ failed # {}
        /\ outcome'.ok => DOMAIN outcome'.value = compatible \ failed
        /\ ~outcome'.ok => outcome'.error = NoPlatforms(method)

C24_ManagerStep ==
    C24_IsManagerStep =>
        C24_Contained(call'.method, call'.manager, call'.platforms, call'.template,
                      call'.pass_id, call'.faults)

C24_FailuresContained == [][C24_ManagerStep]_vars

(***************************************************************************)
(* C25: void_pass on a stored pass changes only the voided flag: the       *)
(* document stored afterwards is the one stored before with voided set to  *)
(* true and every other key as it was, no other pass is touched, get_pass  *)
(* and generate_pass_file called next show the pass as voided, and voiding *)
(* a voided pass leaves the stored document as it is.                      *)
(***************************************************************************)
C25_IsVoid == call'.op = "void_pass" /\ now' # now /\ PassExists(store, call'.pass_id)

C25_VoidStep ==
    C25_IsVoid =>
        LET pass_id == call'.pass_id
            before == RetrievePassData(store, pass_id)
            after == RetrievePassData(store', pass_id)
        IN  /\ outcome'.ok /\ outcome'.value.voided
            /\ DOMAIN store' = DOMAIN store
            /\ DOMAIN after = DOMAIN before \cup {"voided"}
            /\ after.voided = TRUE
            /\ \A key \in DOMAIN before \ {"voided"} : after[key] = before[key]
            /\ \A other \in DOMAIN store \ {pass_id} : store'[other] = store[other]
            /\ GetPass(store', pass_id).ok
            /\ GetPass(store', pass_id).value.voided
            /\ JsonGet(before, "voided", FALSE) => after = before

\* generate_pass_file is the call that follows a void_pass of the same pass
C25_VoidedThenGenerated(c) ==
    /\ pc[c] = "Done"
    /\ call.op = "void_pass"
    /\ outcome.ok
    /\ arg_pass_id[c] = call.pass_id

C25_GeneratedVoided ==
    \A c \in Calls : C25_VoidedThenGenerated(c) =>
        JsonGet(JsonLoad(ArchiveFile(result[c].zip, "pass.json")), "voided", FALSE)

C25_VoidOnlyFlag == [][C25_VoidStep]_vars /\ []C25_GeneratedVoided

\* a pass created at time 0 was voided at time 1 and then packaged: the
\* archive shows the document of time 0 with the flag
C25_Witness ==
    /\ C25_VoidedThenGenerated(MainCall)
    /\ outcome.value.updated_at = 1
    /\ outcome.value.created_at = 0
    /\ LET doc == JsonLoad(ArchiveFile(result[MainCall].zip, "pass.json"))
       IN  /\ doc.voided = TRUE
           /\ doc.createdAt = IsoFormat(0)
           /\ doc = RetrievePassData(store, call.pass_id)
           /\ doc.logoText = "Test Pass"

(***************************************************************************)
(* C26: an operation on a pass_id for which no document is stored fails    *)
(* and changes nothing: get_pass, void_pass and generate_pass_file raise   *)
(* AppleWalletError, update_pass raises PassCreationError, no document is  *)
(* created for the pass_id and no stored document is changed.              *)
(***************************************************************************)
C26_Fails(answer, kind) == ~answer.ok /\ answer.error.kind = kind

C26_MissingStep(pass_id) ==
    /\ C26_Fails(GetPass(store, pass_id), "AppleWalletError")
    /\ (call' = [op |-> "void_pass", pass_id |-> pass_id] /\ now' # now)
          => C26_Fails(outcome', "AppleWalletError") /\ store' = store
    /\ (call'.op = "update_pass" /\ now' # now /\ call'.pass_id = pass_id)
          => C26_Fails(outcome', "PassCreationError") /\ store' = store
    /\ \A c \in Calls :
          (pc[c] = "Idle" /\ pc'[c] # "Idle" /\ arg_pass_id'[c] = pass_id)
             => /\ pc'[c] = "Failed"
                /\ error'[c].kind = "AppleWalletError"
                /\ result'[c] = None
                /\ store' = store

C26_MissingPassFails ==
    [][\A pass_id \in PassIds : ~PassExists(store, pass_id) => C26_MissingStep(pass_id)]_vars

\* update_pass was called for a pass that is not stored while another pass
\* is: it raised and the store holds that other pass only
C26_Witness ==
    /\ call.op = "update_pass"
    /\ C26_Fails(outcome, "PassCreationError")
    /\ call.pass_id = PassIdOf("s2")
    /\ DOMAIN store = {PassIdOf("s1")}
    /\ pc[MainCall] = "Failed"
    /\ arg_pass_id[MainCall] = PassIdOf("s2")

(***************************************************************************)
(* C27: update_pass preserves a pass's identity metadata. Along a run of   *)
(* calls create_pass, update_pass, update_pass, ... on one pass, every     *)
(* update_pass, and get_pass after it, reports the created_at and the      *)
(* authentication token that the call before it reported, so that all of   *)
(* them report what create_pass returned.                                  *)
(***************************************************************************)
C27_IsNextUpdate ==
    /\ call'.op = "update_pass" /\ now' # now /\ outcome'.ok
    /\ call.op \in {"create_pass", "update_pass"} /\ outcome.ok
    /\ outcome.value.id = call'.pass_id

C27_UpdateStep ==
    C27_IsNextUpdate =>
        LET before == outcome.value
            read == GetPass(store', call'.pass_id).value
        IN  /\ outcome'.value.created_at = before.created_at
            /\ outcome'.value.authentication_token = before.authentication_token
            /\ read.created_at = before.created_at
            /\ read.authentication_token = before.authentication_token

C27_IdentityPreserved == [][C27_UpdateStep]_vars

(***************************************************************************)
(* C28: voiding is permanent: once void_pass(pass_id) has succeeded, every *)
(* later get_pass reports voided = true and every later generate_pass_file *)
(* packages a voided document, whatever update_pass calls come in between. *)
(* Stated for an update_pass that follows a successful void_pass.          *)
(***************************************************************************)
C28_ReportsVoided(st, pass_id) ==
    GetPass(st, pass_id).ok /\ GetPass(st, pass_id).value.voided

C28_JustVoided == call.op = "void_pass" /\ outcome.ok

C28_AfterVoidStep ==
    (C28_JustVoided /\ call'.op = "update_pass" /\ now' # now)
       => C28_ReportsVoided(store', call.pass_id)

C28_VoidingPermanent == [][C28_AfterVoidStep]_vars

(***************************************************************************)
(* C28, amended: a pass stays voided until a call writes a new document    *)
(* for it. After a successful update_pass the flag get_pass reports is the *)
(* voided of that call's pass_data; every step other than a successful     *)
(* update_pass or create_pass for the pass leaves a voided pass voided;    *)
(* and the archive generate_pass_file returns carries the stored flag.     *)
(***************************************************************************)
C28_Writes(pass_id) ==
    /\ now' # now
    /\ outcome'.ok
    /\ \/ call'.op = "update_pass" /\ call'.pass_id = pass_id
       \/ call'.op = "create_pass"
            /\ PassIdOf(call'.pass_data.serial_number) = pass_id

C28_FlagStep ==
    /\ (call'.op = "update_pass" /\ now' # now /\ outcome'.ok)
          => /\ GetPass(store', call'.pass_id).ok
             /\ GetPass(store', call'.pass_id).value.voided = call'.pass_data.voided
    /\ \A pass_id \in PassIds :
          (C28_ReportsVoided(store, pass_id) /\ ~C28_Writes(pass_id))
             => C28_ReportsVoided(store', pass_id)

C28_GeneratedFlag ==
    \A c \in Calls : pc[c] = "Done" =>
        JsonGet(JsonLoad(ArchiveFile(result[c].zip, "pass.json")), "voided", FALSE)
           = GetPass(store, arg_pass_id[c]).value.voided

C28_VoidedUntilRewritten == [][C28_FlagStep]_vars /\ []C28_GeneratedFlag

\* the pass was written at time 0 and not since, the call at time 2 was an
\* update_pass with voided = false, and the archive made next is not voided
C28_Witness ==
    /\ call.op = "update_pass" /\ outcome.ok
    /\ ~call.pass_data.voided
    /\ outcome.value.created_at = 0
    /\ now = 3
    /\ DOMAIN store = {call.pass_id}
    /\ ~GetPass(store, call.pass_id).value.voided
    /\ pc[MainCall] = "Done"
    /\ arg_pass_id[MainCall] = call.pass_id
    /\ "voided" \notin DOMAIN JsonLoad(ArchiveFile(result[MainCall].zip, "pass.json"))

(***************************************************************************)
(* C29: in every reachable state of the pass store each document is filed  *)
(* under the id built from its own content: pass_id = pass type identifier *)
(* + "." + the document's serialNumber.                                    *)
(***************************************************************************)
C29_FiledUnderOwnId ==
    \A pass_id \in DOMAIN store :
        pass_id = PassIdOf(RetrievePassData(store, pass_id).serialNumber)

(***************************************************************************)
(* C30: concurrent void_pass and update_pass on one pass_id are atomic     *)
(* with respect to each other: when both have finished, the stored         *)
(* document is what running the two one after the other, in one of the two *)
(* orders, leaves; and a generate_pass_file running at the same time finds *)
(* a whole document in the file at every moment, never a partly written    *)
(* one.                                                                    *)
(***************************************************************************)
C30_Finished(c) == pc[c] \in {"Done", "Failed"}

\* update_pass after void_pass leaves the updated document; void_pass after
\* update_pass leaves the updated document with voided set
C30_SerialResults == {pass_json[UpdateCall], VoidedDocument(pass_json[UpdateCall])}

\* both calls were made for the pass that is stored
C30_SamePass ==
    /\ arg_pass_id[VoidCall] = arg_pass_id[UpdateCall]
    /\ PassExists(ManagerStore, arg_pass_id[VoidCall])

C30_Serializable ==
    (C30_Finished(VoidCall) /\ C30_Finished(UpdateCall) /\ C30_SamePass) =>
        /\ pc[VoidCall] = "Done"
        /\ pc[UpdateCall] = "Done"
        /\ RetrievePassData(store, arg_pass_id[VoidCall]) \in C30_SerialResults

C30_WholeDocument == \A pass_id \in DOMAIN store : IsComplete(store[pass_id])

C30_VoidUpdateAtomic == C30_WholeDocument /\ C30_Serializable

====
